---- MODULE Spec2Model ----
(***************************************************************************)
(* Webhook ingestion of go-bitbucket-server: signature verification,       *)
(* payload extraction, the validation facade and the event decoder.        *)
(*                                                                         *)
(* Go strings and byte slices are sequences of bytes (0..255); the ASCII   *)
(* text of every literal is given in the comment next to it.               *)
(***************************************************************************)
EXTENDS Integers, Sequences, FiniteSets, TLC

VARIABLES r, secretToken, sent, op, args, ret, log, handlers, heap, resp,
          client, requests, responses

vars == <<r, secretToken, sent, op, args, ret, log, handlers, heap, resp,
          client, requests, responses>>

(***************************************************************************)
(* Bytes and text                                                          *)
(***************************************************************************)
Byte == 0..255

Pow2(k) == CASE k = 0 -> 1 [] k = 1 -> 2 [] k = 2 -> 4 [] k = 3 -> 8
             [] k = 4 -> 16 [] k = 5 -> 32 [] k = 6 -> 64 [] k = 7 -> 128

\* bit k (0 = least significant) of byte b
BitOf(b, k) == (b \div Pow2(k)) % 2

\* b with bit k inverted
FlipBit(b, k) == IF BitOf(b, k) = 1 THEN b - Pow2(k) ELSE b + Pow2(k)

\* first index of byte c in s, 0 when s does not contain it
IndexByte(s, c) ==
    LET at == {i \in 1..Len(s) : s[i] = c}
    IN  IF at = {} THEN 0 ELSE CHOOSE i \in at : \A j \in at : i <= j

\* strings.SplitN(s, "=", 2): one part when s has no "=", else the text
\* before the first "=" and all the text after it
SplitN2(s) ==
    LET i == IndexByte(s, 61)
    IN  IF i = 0 THEN <<s>>
        ELSE <<SubSeq(s, 1, i - 1), SubSeq(s, i + 1, Len(s))>>

(***************************************************************************)
(* Errors.  kind is the fixed text of the message, arg the value the       *)
(* message quotes, cause/causeByte the wrapped library diagnostic.         *)
(***************************************************************************)
NilErr == [kind |-> "nil", arg |-> <<>>, cause |-> "nil", causeByte |-> 0]

IsErr(e) == e.kind # "nil"

NewErr(kind, arg) == [kind |-> kind, arg |-> arg, cause |-> "nil", causeByte |-> 0]

WrapErr(kind, arg, e) ==
    [kind |-> kind, arg |-> arg, cause |-> e.kind, causeByte |-> e.causeByte]

\* a library error that reports one offending byte
ByteErr(kind, b) == [kind |-> kind, arg |-> <<>>, cause |-> "nil", causeByte |-> b]

\* a []byte value: nil, or the bytes
NilBytes == [isNil |-> TRUE, bytes |-> <<>>]

Bytes(s) == [isNil |-> FALSE, bytes |-> s]

(***************************************************************************)
(* encoding/hex                                                            *)
(***************************************************************************)
IsHexChar(c) == (c >= 48 /\ c <= 57) \/ (c >= 97 /\ c <= 102) \/ (c >= 65 /\ c <= 70)

fromHexChar(c) ==
    IF c >= 48 /\ c <= 57 THEN c - 48
    ELSE IF c >= 97 /\ c <= 102 THEN c - 87
    ELSE c - 55

\* hextable "0123456789abcdef"
HexDigit(n) == IF n < 10 THEN 48 + n ELSE 87 + n

EncodeToString(b) ==
    [j \in 1..(2 * Len(b)) |->
        IF j % 2 = 1 THEN HexDigit(b[(j + 1) \div 2] \div 16)
        ELSE HexDigit(b[j \div 2] % 16)]

\* hex.Decode: pairs are decoded left to right and the first character that
\* is no hex digit ends the decoding; an odd length is reported after the
\* pairs before it, unless the last character is itself no hex digit
DecodeString(s) ==
    LET bad == {j \in 1..Len(s) : ~IsHexChar(s[j])}
        first == CHOOSE j \in bad : \A k \in bad : j <= k
        pairs(n) == [i \in 1..n |->
                        fromHexChar(s[2 * i - 1]) * 16 + fromHexChar(s[2 * i])]
    IN  IF bad # {}
        THEN [buf |-> pairs((first - 1) \div 2),
              err |-> ByteErr("InvalidByteError", s[first])]
        ELSE IF Len(s) % 2 = 1
        THEN [buf |-> pairs(Len(s) \div 2), err |-> NewErr("ErrLength", <<>>)]
        ELSE [buf |-> pairs(Len(s) \div 2), err |-> NilErr]

(***************************************************************************)
(* crypto/hmac over crypto/sha1, sha256, sha512.  The digest has the       *)
(* algorithm's size; its bytes are a deterministic mix of the algorithm,   *)
(* the key and the message.                                                *)
(***************************************************************************)
HashFuncs == {"sha1", "sha256", "sha512"}

\* sha1.Size, sha256.Size, sha512.Size
Size(hashFunc) ==
    CASE hashFunc = "sha1" -> 20 [] hashFunc = "sha256" -> 32 [] hashFunc = "sha512" -> 64

Seed(hashFunc) ==
    CASE hashFunc = "sha1" -> 1 [] hashFunc = "sha256" -> 2 [] hashFunc = "sha512" -> 3

\* b to the power n, modulo 32749
RECURSIVE PowMod(_, _)
PowMod(b, n) ==
    IF n = 0 THEN 1
    ELSE (PowMod((b * b) % 32749, n \div 2) * (IF n % 2 = 1 THEN b ELSE 1)) % 32749

\* the bytes lo..hi of s as the digits of a number in base 31, modulo 32749
RECURSIVE Poly(_, _, _)
Poly(s, lo, hi) ==
    IF lo > hi THEN 0
    ELSE IF lo = hi THEN s[lo] + 1
    ELSE (Poly(s, lo, (lo + hi) \div 2) * PowMod(31, hi - (lo + hi) \div 2)
          + Poly(s, (lo + hi) \div 2 + 1, hi)) % 32749

\* acc after the bytes of s are mixed into it, one after the other
Mix(acc, s) == (acc * PowMod(31, Len(s)) + Poly(s, 1, Len(s))) % 32749

\* genMAC generates the HMAC signature for a message provided the secret key
\* and hashFunc.
genMAC(message, key, hashFunc) ==
    LET a == Mix(Mix(Mix(Seed(hashFunc), key), <<Len(key) % 256>>), message)
    IN  [i \in 1..Size(hashFunc) |->
            IF i = 1 THEN a % 256
            ELSE IF i = 2 THEN (a \div 256) % 256
            ELSE (a * i + 7 * i) % 256]

\* hmac.Equal: equal lengths and equal bytes
HmacEqual(mac1, mac2) == mac1 = mac2

\* mutant: only the bytes both tags have are compared
checkMAC_Prefix(message, messageMAC, key, hashFunc) ==
    LET expectedMAC == genMAC(message, key, hashFunc)
        n == IF Len(messageMAC) < 16 THEN Len(messageMAC) ELSE 16
    IN  SubSeq(messageMAC, 1, n) = SubSeq(expectedMAC, 1, n)

\* checkMAC reports whether messageMAC is a valid HMAC tag for message.
checkMAC(message, messageMAC, key, hashFunc) ==
    LET expectedMAC == genMAC(message, key, hashFunc)
    IN  HmacEqual(messageMAC, expectedMAC)

(***************************************************************************)
(* messageMAC and ValidateSignature                                        *)
(***************************************************************************)
sha1Prefix == <<115, 104, 97, 49>>                \* "sha1"

sha256Prefix == <<115, 104, 97, 50, 53, 54>>      \* "sha256"

sha512Prefix == <<115, 104, 97, 53, 49, 50>>      \* "sha512"

Prefix(hashFunc) ==
    CASE hashFunc = "sha1" -> sha1Prefix
      [] hashFunc = "sha256" -> sha256Prefix
      [] hashFunc = "sha512" -> sha512Prefix

\* mutant: the sha256 prefix selects sha1.New, and an unrecognized prefix
\* falls through to sha1.New as well
messageMAC_WrongHash(signature) ==
    IF signature = <<>>
    THEN [buf |-> <<>>, hashFunc |-> "nil", err |-> NewErr("missing signature", <<>>)]
    ELSE LET sigParts == SplitN2(signature)
         IN  IF Len(sigParts) # 2
             THEN [buf |-> <<>>, hashFunc |-> "nil",
                   err |-> NewErr("error parsing signature", signature)]
             ELSE LET hashFunc ==
                          IF sigParts[1] = sha512Prefix THEN "sha512" ELSE "sha1"
                      dec == DecodeString(sigParts[2])
                  IN  IF IsErr(dec.err)
                      THEN [buf |-> <<>>, hashFunc |-> "nil",
                            err |-> WrapErr("error decoding signature", signature, dec.err)]
                      ELSE [buf |-> dec.buf, hashFunc |-> hashFunc, err |-> NilErr]

\* mutant: the digest is hex-decoded before the prefix is looked at
messageMAC_DecodeFirst(signature) ==
    IF signature = <<>>
    THEN [buf |-> <<>>, hashFunc |-> "nil", err |-> NewErr("missing signature", <<>>)]
    ELSE LET sigParts == SplitN2(signature)
         IN  IF Len(sigParts) # 2
             THEN [buf |-> <<>>, hashFunc |-> "nil",
                   err |-> NewErr("error parsing signature", signature)]
             ELSE LET hashFunc ==
                          IF sigParts[1] = sha1Prefix THEN "sha1"
                          ELSE IF sigParts[1] = sha256Prefix THEN "sha256"
                          ELSE IF sigParts[1] = sha512Prefix THEN "sha512"
                          ELSE "nil"
                      dec == DecodeString(sigParts[2])
                  IN  IF IsErr(dec.err)
                      THEN [buf |-> <<>>, hashFunc |-> "nil",
                            err |-> WrapErr("error decoding signature", signature, dec.err)]
                      ELSE IF hashFunc = "nil"
                      THEN [buf |-> <<>>, hashFunc |-> "nil",
                            err |-> NewErr("unknown hash type prefix", sigParts[1])]
                      ELSE [buf |-> dec.buf, hashFunc |-> hashFunc, err |-> NilErr]

\* messageMAC returns the hex-decoded HMAC tag from the signature and its
\* corresponding hash function.
messageMAC(signature) ==
    IF signature = <<>>
    THEN [buf |-> <<>>, hashFunc |-> "nil", err |-> NewErr("missing signature", <<>>)]
    ELSE LET sigParts == SplitN2(signature)
         IN  IF Len(sigParts) # 2
             THEN [buf |-> <<>>, hashFunc |-> "nil",
                   err |-> NewErr("error parsing signature", signature)]
             ELSE LET hashFunc ==
                          IF sigParts[1] = sha1Prefix THEN "sha1"
                          ELSE IF sigParts[1] = sha256Prefix THEN "sha256"
                          ELSE IF sigParts[1] = sha512Prefix THEN "sha512"
                          ELSE "nil"
                      dec == DecodeString(sigParts[2])
                  IN  IF hashFunc = "nil"
                      THEN [buf |-> <<>>, hashFunc |-> "nil",
                            err |-> NewErr("unknown hash type prefix", sigParts[1])]
                      ELSE IF IsErr(dec.err)
                      THEN [buf |-> <<>>, hashFunc |-> "nil",
                            err |-> WrapErr("error decoding signature", signature, dec.err)]
                      ELSE [buf |-> dec.buf, hashFunc |-> hashFunc, err |-> NilErr]

\* mutant: a header that does not parse is treated as "no signature required"
ValidateSignature_FailOpen(signature, payload, secret) ==
    LET m == messageMAC(signature)
    IN  IF IsErr(m.err) THEN NilErr
        ELSE IF ~checkMAC(payload, m.buf, secret, m.hashFunc)
        THEN NewErr("payload signature check failed", <<>>)
        ELSE NilErr

\* mutant: the mismatch is reported with the digest that was expected
ValidateSignature_ShowExpected(signature, payload, secret) ==
    LET m == messageMAC(signature)
    IN  IF IsErr(m.err) THEN m.err
        ELSE IF ~checkMAC(payload, m.buf, secret, m.hashFunc)
        THEN NewErr("payload signature check failed",
                    EncodeToString(genMAC(payload, secret, m.hashFunc)))
        ELSE NilErr

\* ValidateSignature validates the signature for the given payload.
ValidateSignature(signature, payload, secret) ==
    LET m == messageMAC(signature)
    IN  IF IsErr(m.err) THEN m.err
        ELSE IF ~checkMAC(payload, m.buf, secret, m.hashFunc)
        THEN NewErr("payload signature check failed", <<>>)
        ELSE NilErr

\* the header the sender builds: "<algo>=<hex of HMAC-algo(message, key)>"
SignatureHeader(hashFunc, message, key) ==
    Prefix(hashFunc) \o <<61>> \o EncodeToString(genMAC(message, key, hashFunc))

(***************************************************************************)
(* net/url: query escaping, and parsing of a form-url-encoded body         *)
(***************************************************************************)
IsAlnum(c) == (c >= 48 /\ c <= 57) \/ (c >= 97 /\ c <= 122) \/ (c >= 65 /\ c <= 90)

\* shouldEscape(c, encodeQueryComponent): letters, digits and - _ . ~ stay
shouldEscape(c) == ~(IsAlnum(c) \/ c \in {45, 95, 46, 126})

\* upperhex "0123456789ABCDEF"
UpperHexDigit(n) == IF n < 10 THEN 48 + n ELSE 55 + n

\* url.QueryEscape of the bytes lo..hi of s: a space becomes "+", an escaped
\* byte "%XX"
RECURSIVE EscapeRange(_, _, _)
EscapeRange(s, lo, hi) ==
    IF lo > hi THEN <<>>
    ELSE IF lo = hi
         THEN IF s[lo] = 32 THEN <<43>>
              ELSE IF shouldEscape(s[lo])
                   THEN <<37, UpperHexDigit(s[lo] \div 16), UpperHexDigit(s[lo] % 16)>>
              ELSE <<s[lo]>>
    ELSE EscapeRange(s, lo, (lo + hi) \div 2) \o EscapeRange(s, (lo + hi) \div 2 + 1, hi)

QueryEscape(s) == EscapeRange(s, 1, Len(s))

\* first pass of unescape: every "%" is followed by two hex digits (which
\* are no "%", so every "%" of a valid text starts an escape)
EscapesValid(s) ==
    \A i \in 1..Len(s) :
        s[i] = 37 => i + 2 <= Len(s) /\ IsHexChar(s[i + 1]) /\ IsHexChar(s[i + 2])

\* EscapeError: the text of the first escape that is not valid, "%" and up to
\* two bytes after it
BadEscape(s) ==
    LET bad == {i \in 1..Len(s) :
                   s[i] = 37 /\ ~(i + 2 <= Len(s) /\ IsHexChar(s[i + 1]) /\ IsHexChar(s[i + 2]))}
        i == CHOOSE j \in bad : \A k \in bad : j <= k
    IN  SubSeq(s, i, IF i + 2 <= Len(s) THEN i + 2 ELSE Len(s))

\* the k-th smallest element of a set of numbers
Nth(S, k) == CHOOSE i \in S : Cardinality({j \in S : j <= i}) = k

\* the indexes of s that are not the hex digits of an escape
Unescaped(s) ==
    {i \in 1..Len(s) : ~(i > 1 /\ s[i - 1] = 37) /\ ~(i > 2 /\ s[i - 2] = 37)}

\* second pass of unescape: "%XX" becomes the byte, "+" a space
Unescape(s) ==
    [k \in 1..Cardinality(Unescaped(s)) |->
        LET i == Nth(Unescaped(s), k)
        IN  IF s[i] = 37 THEN fromHexChar(s[i + 1]) * 16 + fromHexChar(s[i + 2])
            ELSE IF s[i] = 43 THEN 32
            ELSE s[i]]

\* mutant: "+" is kept as it is
QueryUnescape_NoPlus(s) ==
    IF ~EscapesValid(s)
    THEN [str |-> <<>>, err |-> NewErr("invalid URL escape", BadEscape(s))]
    ELSE [str |-> [k \in 1..Cardinality(Unescaped(s)) |->
                      LET i == Nth(Unescaped(s), k)
                      IN  IF s[i] = 37
                          THEN fromHexChar(s[i + 1]) * 16 + fromHexChar(s[i + 2])
                          ELSE s[i]],
          err |-> NilErr]

\* url.QueryUnescape
QueryUnescape(s) ==
    IF ~EscapesValid(s)
    THEN [str |-> <<>>, err |-> NewErr("invalid URL escape", BadEscape(s))]
    ELSE [str |-> Unescape(s), err |-> NilErr]

\* strings.Cut(s, sep): the text before the first sep and the text after it;
\* all of s and nothing when s has no sep
CutBefore(s, sep) ==
    LET i == IndexByte(s, sep) IN IF i = 0 THEN s ELSE SubSeq(s, 1, i - 1)

CutAfter(s, sep) ==
    LET i == IndexByte(s, sep) IN IF i = 0 THEN <<>> ELSE SubSeq(s, i + 1, Len(s))

\* url.ParseQuery: the "&"-separated settings in order, as <<key, value>>
\* pairs; a setting that does not unescape is dropped, and the first such
\* error is the one returned
RECURSIVE parseQuery(_, _, _)
parseQuery(query, values, err) ==
    IF query = <<>> THEN [values |-> values, err |-> err]
    ELSE LET setting == CutBefore(query, 38)
             rest == CutAfter(query, 38)
             key == QueryUnescape(CutBefore(setting, 61))
             value == QueryUnescape(CutAfter(setting, 61))
         IN  IF setting = <<>> THEN parseQuery(rest, values, err)
             ELSE IF IsErr(key.err)
                  THEN parseQuery(rest, values, IF IsErr(err) THEN err ELSE key.err)
             ELSE IF IsErr(value.err)
                  THEN parseQuery(rest, values, IF IsErr(err) THEN err ELSE value.err)
             ELSE parseQuery(rest, Append(values, <<key.str, value.str>>), err)

ParseQuery(query) == parseQuery(query, <<>>, NilErr)

\* Values.Get: the first value of the key, "" when there is none
RECURSIVE FormGet(_, _)
FormGet(values, key) ==
    IF values = <<>> THEN <<>>
    ELSE IF Head(values)[1] = key THEN Head(values)[2]
    ELSE FormGet(Tail(values), key)

(***************************************************************************)
(* The request.  Header.Get returns "" for a header that is absent, so an  *)
(* absent header and an empty one are the same value here.  Content-Type,  *)
(* X-Event-Key and X-Request-Id are only compared and quoted by the code   *)
(* and are text values; X-Hub-Signature is parsed and is a byte sequence.  *)
(* Body is the stream: data, the bytes sent; pos, how many of them have    *)
(* been read; fail, whether reading it reports an error; reads, how many   *)
(* times ioutil.ReadAll was called on it.                                  *)
(***************************************************************************)
payloadFormParam == <<112, 97, 121, 108, 111, 97, 100>>     \* "payload"

NewRequest(contentType, signature, eventKey, requestID, data, fail) ==
    [Header |-> [ContentType |-> contentType, Signature |-> signature,
                 EventKey |-> eventKey, RequestID |-> requestID],
     Body |-> [data |-> data, pos |-> 0, fail |-> fail, reads |-> 0]]

\* ioutil.ReadAll(r.Body): the bytes not read yet, and the stream left at its
\* end; or the error of a stream that fails, which is left where it failed
\* (a failing stream fails at its first Read)
ReadAll(body) ==
    IF body.fail
    THEN [bytes |-> <<>>, err |-> NewErr("read error", <<>>),
          body |-> [body EXCEPT !.reads = @ + 1]]
    ELSE [bytes |-> SubSeq(body.data, body.pos + 1, Len(body.data)), err |-> NilErr,
          body |-> [body EXCEPT !.pos = Len(body.data), !.reads = @ + 1]]

\* mutant: a media type followed by parameters is taken for the media type
Supported_Params(ct) ==
    ct \in {"application/json", "application/x-www-form-urlencoded",
            "application/json; charset=utf-8"}

\* the content types the switch has a case for
Supported(ct) == ct \in {"application/json", "application/x-www-form-urlencoded"}

\* mutant: the JSON body is query-unescaped like a form value
ExtractPayload_JSONUnescape(ct, body) ==
    IF ct = "application/json"
    THEN [payload |-> QueryUnescape(body).str, err |-> QueryUnescape(body).err]
    ELSE [payload |-> FormGet(ParseQuery(body).values, payloadFormParam),
          err |-> ParseQuery(body).err]

\* mutant: a form without the payload field is an error
ExtractPayload_RequireField(ct, body) ==
    IF ct = "application/json" THEN [payload |-> body, err |-> NilErr]
    ELSE IF IsErr(ParseQuery(body).err)
         THEN [payload |-> <<>>, err |-> ParseQuery(body).err]
    ELSE IF \A i \in 1..Len(ParseQuery(body).values) :
                ParseQuery(body).values[i][1] # payloadFormParam
         THEN [payload |-> <<>>, err |-> NewErr("missing payload", <<>>)]
    ELSE [payload |-> FormGet(ParseQuery(body).values, payloadFormParam), err |-> NilErr]

\* the payload of a body that was read, by the case of the switch: the body
\* itself for application/json, else the "payload" form param
ExtractPayload(ct, body) ==
    IF ct = "application/json" THEN [payload |-> body, err |-> NilErr]
    ELSE IF IsErr(ParseQuery(body).err)
         THEN [payload |-> <<>>, err |-> ParseQuery(body).err]
    ELSE [payload |-> FormGet(ParseQuery(body).values, payloadFormParam), err |-> NilErr]

\* mutant: the signature is checked over the extracted payload
CheckAndReturn_SignPayload(req, body, payload, secret) ==
    IF Len(secret) > 0 /\ IsErr(ValidateSignature(req.Header.Signature, payload, secret))
    THEN [payload |-> NilBytes,
          err |-> ValidateSignature(req.Header.Signature, payload, secret), r |-> req]
    ELSE [payload |-> Bytes(payload), err |-> NilErr, r |-> req]

\* mutant: the signature is checked whether or not a secret token exists
CheckAndReturn_AlwaysVerify(req, body, payload, secret) ==
    IF IsErr(ValidateSignature(req.Header.Signature, body, secret))
    THEN [payload |-> NilBytes,
          err |-> ValidateSignature(req.Header.Signature, body, secret), r |-> req]
    ELSE [payload |-> Bytes(payload), err |-> NilErr, r |-> req]

\* the last step of ValidatePayload: the signature check of the raw body
\* under a non-empty secret, then the payload
CheckAndReturn(req, body, payload, secret) ==
    IF Len(secret) > 0 /\ IsErr(ValidateSignature(req.Header.Signature, body, secret))
    THEN [payload |-> NilBytes,
          err |-> ValidateSignature(req.Header.Signature, body, secret), r |-> req]
    ELSE [payload |-> Bytes(payload), err |-> NilErr, r |-> req]

\* mutant: the body is read before the Content-Type is looked at
ValidatePayload_ReadFirst(req, secret) ==
    LET ct == req.Header.ContentType
        rd == ReadAll(req.Body)
        after == [req EXCEPT !.Body = rd.body]
        ex == ExtractPayload(ct, rd.bytes)
    IN  IF IsErr(rd.err)
        THEN [payload |-> NilBytes, err |-> rd.err, r |-> after]
        ELSE IF ~Supported(ct)
        THEN [payload |-> NilBytes,
              err |-> NewErr("webhook request has unsupported Content-Type", ct),
              r |-> after]
        ELSE IF IsErr(ex.err)
        THEN [payload |-> NilBytes, err |-> ex.err, r |-> after]
        ELSE CheckAndReturn(after, rd.bytes, ex.payload, secret)

\* mutant: a request whose body was read before is refused
ValidatePayload_Once(req, secret) ==
    LET ct == req.Header.ContentType
        rd == ReadAll(req.Body)
        after == [req EXCEPT !.Body = rd.body]
        ex == ExtractPayload(ct, rd.bytes)
    IN  IF ~Supported(ct)
        THEN [payload |-> NilBytes,
              err |-> NewErr("webhook request has unsupported Content-Type", ct),
              r |-> req]
        ELSE IF req.Body.reads > 0
        THEN [payload |-> NilBytes, err |-> NewErr("body already read", <<>>), r |-> req]
        ELSE IF IsErr(rd.err)
        THEN [payload |-> NilBytes, err |-> rd.err, r |-> after]
        ELSE IF IsErr(ex.err)
        THEN [payload |-> NilBytes, err |-> ex.err, r |-> after]
        ELSE CheckAndReturn(after, rd.bytes, ex.payload, secret)

\* mutant: the signature header is parsed before the Content-Type is looked at
ValidatePayload_HeaderFirst(req, secret) ==
    LET ct == req.Header.ContentType
        rd == ReadAll(req.Body)
        after == [req EXCEPT !.Body = rd.body]
        ex == ExtractPayload(ct, rd.bytes)
    IN  IF Len(secret) > 0 /\ IsErr(messageMAC(req.Header.Signature).err)
        THEN [payload |-> NilBytes, err |-> messageMAC(req.Header.Signature).err, r |-> req]
        ELSE IF ~Supported(ct)
        THEN [payload |-> NilBytes,
              err |-> NewErr("webhook request has unsupported Content-Type", ct),
              r |-> req]
        ELSE IF IsErr(rd.err)
        THEN [payload |-> NilBytes, err |-> rd.err, r |-> after]
        ELSE IF IsErr(ex.err)
        THEN [payload |-> NilBytes, err |-> ex.err, r |-> after]
        ELSE CheckAndReturn(after, rd.bytes, ex.payload, secret)

\* mutant: the body is read from its start whatever was read before
ValidatePayload_Rewind(req, secret) ==
    LET ct == req.Header.ContentType
        rd == ReadAll([req.Body EXCEPT !.pos = 0])
        after == [req EXCEPT !.Body = rd.body]
        ex == ExtractPayload(ct, rd.bytes)
    IN  IF ~Supported(ct)
        THEN [payload |-> NilBytes,
              err |-> NewErr("webhook request has unsupported Content-Type", ct),
              r |-> req]
        ELSE IF IsErr(rd.err)
        THEN [payload |-> NilBytes, err |-> rd.err, r |-> after]
        ELSE IF IsErr(ex.err)
        THEN [payload |-> NilBytes, err |-> ex.err, r |-> after]
        ELSE CheckAndReturn(after, rd.bytes, ex.payload, secret)

\* ValidatePayload validates an incoming webhook event request and returns
\* the (JSON) payload; r is the request as the call leaves it.
ValidatePayload(req, secret) ==
    LET ct == req.Header.ContentType
        rd == ReadAll(req.Body)
        after == [req EXCEPT !.Body = rd.body]
        ex == ExtractPayload(ct, rd.bytes)
    IN  IF ~Supported(ct)
        THEN [payload |-> NilBytes,
              err |-> NewErr("webhook request has unsupported Content-Type", ct),
              r |-> req]
        ELSE IF IsErr(rd.err)
        THEN [payload |-> NilBytes, err |-> rd.err, r |-> after]
        ELSE IF IsErr(ex.err)
        THEN [payload |-> NilBytes, err |-> ex.err, r |-> after]
        ELSE CheckAndReturn(after, rd.bytes, ex.payload, secret)

\* WebHookType returns the event key of webhook request r.
WebHookType(req) == req.Header.EventKey

\* RequestID returns the unique UUID for each webhook request r.
RequestID(req) == req.Header.RequestID

(***************************************************************************)
(* encoding/json: the syntax check of the whole input (checkValid), and    *)
(* the value it denotes.  A value is [t, s, items]: t its JSON type, s the *)
(* text of a number or the decoded text of a string, items the elements of *)
(* an array or the <<key, value>> members of an object, in input order.    *)
(* A result is [ok, eof, v, next]: eof tells "unexpected end of JSON       *)
(* input" from "invalid character", next is the index after the value.     *)
(***************************************************************************)
JVal(t, str, items) == [t |-> t, s |-> str, items |-> items]

JNull == JVal("null", <<>>, <<>>)

JOk(v, next) == [ok |-> TRUE, eof |-> FALSE, v |-> v, next |-> next]

JFail(eof) == [ok |-> FALSE, eof |-> eof, v |-> JNull, next |-> 0]

IsDigit(c) == c >= 48 /\ c <= 57

\* the first index from i on whose byte is not in the class, Len(s) + 1 when
\* there is none
SkipWhile(s, i, class) ==
    LET stop == {j \in i..Len(s) : s[j] \notin class}
    IN  IF stop = {} THEN (IF i > Len(s) THEN i ELSE Len(s) + 1)
        ELSE CHOOSE j \in stop : \A k \in stop : j <= k

SkipWs(s, i) == SkipWhile(s, i, {32, 9, 13, 10})

Digits(s, i) == SkipWhile(s, i, 48..57)

\* a literal name (true, false, null) at i
JLit(s, i, word, v) ==
    LET n == IF Len(s) - i + 1 < Len(word) THEN Len(s) - i + 1 ELSE Len(word)
    IN  IF SubSeq(s, i, i + n - 1) # SubSeq(word, 1, n) THEN JFail(FALSE)
        ELSE IF n < Len(word) THEN JFail(TRUE)
        ELSE JOk(v, i + Len(word))

\* the index after the digits that must start at i: 0 for a character that
\* is no digit, -1 for the end of the input
DigitsAt(s, i) ==
    IF i > Len(s) THEN -1 ELSE IF ~IsDigit(s[i]) THEN 0 ELSE Digits(s, i)

JNumber(s, i) ==
    LET a == IF s[i] = 45 THEN i + 1 ELSE i
        b == IF a <= Len(s) /\ s[a] = 48 THEN a + 1 ELSE DigitsAt(s, a)
        c == IF b > 0 /\ b <= Len(s) /\ s[b] = 46 THEN DigitsAt(s, b + 1) ELSE b
        e == IF c > 0 /\ c + 1 <= Len(s) /\ s[c + 1] \in {43, 45} THEN c + 2 ELSE c + 1
        d == IF c > 0 /\ c <= Len(s) /\ s[c] \in {101, 69} THEN DigitsAt(s, e) ELSE c
    IN  IF d = -1 THEN JFail(TRUE)
        ELSE IF d = 0 THEN JFail(FALSE)
        ELSE JOk(JVal("num", SubSeq(s, i, d - 1), <<>>), d)

\* the byte an escape character stands for, 0 when it is no escape
Unquote(e) ==
    CASE e \in {34, 92, 47} -> e
      [] e = 98 -> 8 [] e = 102 -> 12 [] e = 110 -> 10 [] e = 114 -> 13 [] e = 116 -> 9
      [] OTHER -> 0

\* whether the backslash at p, in a string that starts at j, starts an
\* escape: the backslashes right before it pair up
StartsEscape(s, j, p) ==
    /\ s[p] = 92
    /\ LET other == {k \in j..(p - 1) : s[k] # 92}
           from == IF other = {} THEN j
                   ELSE (CHOOSE k \in other : \A m \in other : m <= k) + 1
       IN  (p - from) % 2 = 0

\* whether the byte at p is the one an escape stands for
IsEscaped(s, j, p) == p > j /\ StartsEscape(s, j, p - 1)

\* the least element of a non-empty set of numbers
Least(S) == CHOOSE p \in S : \A q \in S : p <= q

\* the index of the quote that ends the string that starts at j: the first
\* quote that is not escaped, Len(s) + 1 when there is none
StringEnd(s, j, quotes) == IF quotes = {} THEN Len(s) + 1 ELSE Least(quotes)

\* the string at j..end-1: a control character or an unknown escape in it is
\* an invalid character; kept are the indexes of the bytes of its text
StringText(s, j, end, kept) ==
    IF \E p \in j..(end - 1) : s[p] < 32 \/ (IsEscaped(s, j, p) /\ Unquote(s[p]) = 0)
    THEN JFail(FALSE)
    ELSE IF end > Len(s) THEN JFail(TRUE)
    ELSE JOk(JVal("str",
                  [k \in 1..Cardinality(kept) |->
                      IF IsEscaped(s, j, Nth(kept, k)) THEN Unquote(s[Nth(kept, k)])
                      ELSE s[Nth(kept, k)]],
                  <<>>),
             end + 1)

StringTo(s, j, end) ==
    StringText(s, j, end, {p \in j..(end - 1) : ~StartsEscape(s, j, p)})

\* the text of a string whose opening quote is before j
JString(s, j) ==
    StringTo(s, j, StringEnd(s, j, {p \in j..Len(s) : s[p] = 34 /\ ~IsEscaped(s, j, p)}))

\* One parser for the three places of the grammar: mode "value" reads the
\* value at i, "elements" the elements of an array from the element at i on,
\* "members" the members of an object from the key at i on; acc holds the
\* elements or members read so far.
RECURSIVE JRead(_, _, _, _)

\* after the bracket that opens an array or an object: j is the index of
\* what follows it
JOpen(mode, s, j, close, type) ==
    IF j > Len(s) THEN JFail(TRUE)
    ELSE IF s[j] = close THEN JOk(JVal(type, <<>>, <<>>), j + 1)
    ELSE JRead(mode, s, j, <<>>)

\* after an element or a member: k is the index of what follows it
JAfter(mode, s, k, items) ==
    IF k > Len(s) THEN JFail(TRUE)
    ELSE IF mode = "elements" /\ s[k] = 93 THEN JOk(JVal("arr", <<>>, items), k + 1)
    ELSE IF mode = "members" /\ s[k] = 125 THEN JOk(JVal("obj", <<>>, items), k + 1)
    ELSE IF s[k] = 44 THEN JRead(mode, s, SkipWs(s, k + 1), items)
    ELSE JFail(FALSE)

\* the value of an element or a member was read
JItem(mode, s, acc, key, val) ==
    IF ~val.ok THEN val
    ELSE JAfter(mode, s, SkipWs(s, val.next),
                Append(acc, IF mode = "elements" THEN val.v ELSE <<key.v.s, val.v>>))

\* the key of a member was read: c is the index of what follows it
JColon(s, acc, key, c) ==
    IF c > Len(s) THEN JFail(TRUE)
    ELSE IF s[c] # 58 THEN JFail(FALSE)
    ELSE JItem("members", s, acc, key, JRead("value", s, SkipWs(s, c + 1), <<>>))

JKey(s, acc, key) ==
    IF ~key.ok THEN key ELSE JColon(s, acc, key, SkipWs(s, key.next))

JRead(mode, s, i, acc) ==
    IF mode = "elements"
    THEN JItem(mode, s, acc, JFail(FALSE), JRead("value", s, i, <<>>))
    ELSE IF i > Len(s) THEN JFail(TRUE)
    ELSE IF mode = "members"
    THEN IF s[i] # 34 THEN JFail(FALSE) ELSE JKey(s, acc, JString(s, i + 1))
    ELSE IF s[i] = 123 THEN JOpen("members", s, SkipWs(s, i + 1), 125, "obj")
    ELSE IF s[i] = 91 THEN JOpen("elements", s, SkipWs(s, i + 1), 93, "arr")
    ELSE IF s[i] = 34 THEN JString(s, i + 1)
    ELSE IF s[i] = 45 \/ IsDigit(s[i]) THEN JNumber(s, i)
    ELSE IF s[i] = 116 THEN JLit(s, i, <<116, 114, 117, 101>>, JVal("true", <<>>, <<>>))
    ELSE IF s[i] = 102
         THEN JLit(s, i, <<102, 97, 108, 115, 101>>, JVal("false", <<>>, <<>>))
    ELSE IF s[i] = 110 THEN JLit(s, i, <<110, 117, 108, 108>>, JNull)
    ELSE JFail(FALSE)

JValue(s, i) == JRead("value", s, i, <<>>)

\* the value at the start of the input: after it, only white space
JTop(data, top) ==
    IF ~top.ok THEN top
    ELSE IF SkipWs(data, top.next) <= Len(data) THEN JFail(FALSE)
    ELSE top

\* checkValid: one value, with white space around it and nothing after it
JParse(data) == JTop(data, JValue(data, SkipWs(data, 1)))

(***************************************************************************)
(* The event records (event_types.go).  Each field of a record is          *)
(* [go, json, kind]: its Go name, its JSON name, and what it decodes from: *)
(* "string" a JSON string, "time" a JSON string holding an RFC 3339 time,  *)
(* "ptr" a JSON object, "slice" a JSON array.                              *)
(***************************************************************************)
PushEventFields ==
    <<[go |-> "EventKey", json |-> <<101, 118, 101, 110, 116, 75, 101, 121>>, kind |-> "string"],
      [go |-> "Date", json |-> <<100, 97, 116, 101>>, kind |-> "time"],
      [go |-> "Actor", json |-> <<97, 99, 116, 111, 114>>, kind |-> "ptr"],
      [go |-> "Repository", json |-> <<114, 101, 112, 111, 115, 105, 116, 111, 114, 121>>, kind |-> "ptr"],
      [go |-> "Changes", json |-> <<99, 104, 97, 110, 103, 101, 115>>, kind |-> "slice"]>>

RepositoryModifiedEventFields ==
    <<[go |-> "EventKey", json |-> <<101, 118, 101, 110, 116, 75, 101, 121>>, kind |-> "string"],
      [go |-> "Date", json |-> <<100, 97, 116, 101>>, kind |-> "string"],
      [go |-> "Actor", json |-> <<97, 99, 116, 111, 114>>, kind |-> "ptr"],
      [go |-> "Old", json |-> <<111, 108, 100>>, kind |-> "ptr"],
      [go |-> "New", json |-> <<110, 101, 119>>, kind |-> "ptr"]>>

RepositoryForkedEventFields ==
    <<[go |-> "EventKey", json |-> <<101, 118, 101, 110, 116, 75, 101, 121>>, kind |-> "string"],
      [go |-> "Date", json |-> <<100, 97, 116, 101>>, kind |-> "string"],
      [go |-> "Actor", json |-> <<97, 99, 116, 111, 114>>, kind |-> "ptr"],
      [go |-> "Repository", json |-> <<114, 101, 112, 111, 115, 105, 116, 111, 114, 121>>, kind |-> "ptr"]>>

PullRequestModifiedEventFields ==
    <<[go |-> "EventKey", json |-> <<101, 118, 101, 110, 116, 75, 101, 121>>, kind |-> "string"],
      [go |-> "Date", json |-> <<100, 97, 116, 101>>, kind |-> "time"],
      [go |-> "Actor", json |-> <<97, 99, 116, 111, 114>>, kind |-> "ptr"],
      [go |-> "PullRequest", json |-> <<112, 117, 108, 108, 82, 101, 113, 117, 101, 115, 116>>, kind |-> "ptr"],
      [go |-> "PreviousTitle", json |-> <<112, 114, 101, 118, 105, 111, 117, 115, 84, 105, 116, 108, 101>>, kind |-> "string"],
      [go |-> "PreviousDescription", json |-> <<112, 114, 101, 118, 105, 111, 117, 115, 68, 101, 115, 99, 114, 105, 112, 116, 105, 111, 110>>, kind |-> "string"],
      [go |-> "PreviousTarget", json |-> <<112, 114, 101, 118, 105, 111, 117, 115, 84, 97, 114, 103, 101, 116>>, kind |-> "ptr"]>>

PullRequestBranchUpdatedEventFields ==
    <<[go |-> "EventKey", json |-> <<101, 118, 101, 110, 116, 75, 101, 121>>, kind |-> "string"],
      [go |-> "Date", json |-> <<100, 97, 116, 101>>, kind |-> "time"],
      [go |-> "Actor", json |-> <<97, 99, 116, 111, 114>>, kind |-> "ptr"],
      [go |-> "PullRequest", json |-> <<112, 117, 108, 108, 82, 101, 113, 117, 101, 115, 116>>, kind |-> "ptr"],
      [go |-> "PreviousFromHash", json |-> <<112, 114, 101, 118, 105, 111, 117, 115, 70, 114, 111, 109, 72, 97, 115, 104>>, kind |-> "string"]>>

PullRequestEventFields ==
    <<[go |-> "EventKey", json |-> <<101, 118, 101, 110, 116, 75, 101, 121>>, kind |-> "string"],
      [go |-> "Date", json |-> <<100, 97, 116, 101>>, kind |-> "time"],
      [go |-> "Actor", json |-> <<97, 99, 116, 111, 114>>, kind |-> "ptr"],
      [go |-> "PullRequest", json |-> <<112, 117, 108, 108, 82, 101, 113, 117, 101, 115, 116>>, kind |-> "ptr"]>>

PullRequestReviewersUpdatedEventFields ==
    <<[go |-> "EventKey", json |-> <<101, 118, 101, 110, 116, 75, 101, 121>>, kind |-> "string"],
      [go |-> "Date", json |-> <<100, 97, 116, 101>>, kind |-> "string"],
      [go |-> "Actor", json |-> <<97, 99, 116, 111, 114>>, kind |-> "ptr"],
      [go |-> "PullRequest", json |-> <<112, 117, 108, 108, 82, 101, 113, 117, 101, 115, 116>>, kind |-> "ptr"],
      [go |-> "AddedReviewers", json |-> <<97, 100, 100, 101, 100, 82, 101, 118, 105, 101, 119, 101, 114, 115>>, kind |-> "slice"],
      [go |-> "RemovedReviewers", json |-> <<114, 101, 109, 111, 118, 101, 100, 82, 101, 118, 105, 101, 119, 101, 114, 115>>, kind |-> "slice"]>>

PullRequestReviewerEventFields ==
    <<[go |-> "EventKey", json |-> <<101, 118, 101, 110, 116, 75, 101, 121>>, kind |-> "string"],
      [go |-> "Date", json |-> <<100, 97, 116, 101>>, kind |-> "time"],
      [go |-> "Actor", json |-> <<97, 99, 116, 111, 114>>, kind |-> "ptr"],
      [go |-> "PullRequest", json |-> <<112, 117, 108, 108, 82, 101, 113, 117, 101, 115, 116>>, kind |-> "ptr"],
      [go |-> "Participant", json |-> <<112, 97, 114, 116, 105, 99, 105, 112, 97, 110, 116>>, kind |-> "ptr"],
      [go |-> "PreviousStatus", json |-> <<112, 114, 101, 118, 105, 111, 117, 115, 83, 116, 97, 116, 117, 115>>, kind |-> "string"]>>

\* the struct type behind each record type
Underlying(type) ==
    CASE type \in {"PullRequestOpenedEvent", "PullRequestMergedEvent",
                   "PullRequestDeclinedEvent", "PullRequestDeletedEvent"}
           -> "PullRequestEvent"
      [] type \in {"PullRequestApprovedEvent", "PullRequestUnapprovedEvent",
                   "PullRequestNeedsWorkEvent"}
           -> "PullRequestReviewerEvent"
      [] OTHER -> type

FieldsOf(type) ==
    CASE Underlying(type) = "PushEvent" -> PushEventFields
      [] Underlying(type) = "RepositoryModifiedEvent" -> RepositoryModifiedEventFields
      [] Underlying(type) = "RepositoryForkedEvent" -> RepositoryForkedEventFields
      [] Underlying(type) = "PullRequestModifiedEvent" -> PullRequestModifiedEventFields
      [] Underlying(type) = "PullRequestBranchUpdatedEvent"
           -> PullRequestBranchUpdatedEventFields
      [] Underlying(type) = "PullRequestEvent" -> PullRequestEventFields
      [] Underlying(type) = "PullRequestReviewersUpdatedEvent"
           -> PullRequestReviewersUpdatedEventFields
      [] Underlying(type) = "PullRequestReviewerEvent" -> PullRequestReviewerEventFields

EventKeys ==
    {"repo:refs_changed", "repo:modified", "repo:forked", "pr:opened",
     "pr:reviewer:updated", "pr:modified", "pr:from_ref_updated",
     "pr:reviewer:approved", "pr:reviewer:unapproved", "pr:reviewer:needs_work",
     "pr:merged", "pr:declined", "pr:deleted"}

(***************************************************************************)
(* json.Unmarshal into a pointer to a record                               *)
(***************************************************************************)
ToLower(c) == IF c >= 65 /\ c <= 90 THEN c + 32 ELSE c

\* strings.EqualFold on ASCII text
EqualFold(a, b) ==
    Len(a) = Len(b) /\ \A i \in 1..Len(a) : ToLower(a[i]) = ToLower(b[i])

\* the index in fields of the field a JSON key names: the exact name if
\* there is one, else the first name equal up to case; 0 when none
FieldIndex(fields, key) ==
    LET exact == {i \in 1..Len(fields) : fields[i].json = key}
        fold == {i \in 1..Len(fields) : EqualFold(fields[i].json, key)}
        Min(S) == CHOOSE i \in S : \A j \in S : i <= j
    IN  IF exact # {} THEN Min(exact) ELSE IF fold # {} THEN Min(fold) ELSE 0

\* the layout "2006-01-02T15:04:05Z07:00": digits and separators in place,
\* a zone of "Z" or "+hh:mm" / "-hh:mm"
IsRFC3339(t) ==
    /\ Len(t) \in {20, 25}
    /\ \A i \in {1, 2, 3, 4, 6, 7, 9, 10, 12, 13, 15, 16, 18, 19} : IsDigit(t[i])
    /\ t[5] = 45 /\ t[8] = 45 /\ t[11] = 84 /\ t[14] = 58 /\ t[17] = 58
    /\ IF Len(t) = 20 THEN t[20] = 90
       ELSE /\ t[20] \in {43, 45} /\ t[23] = 58
            /\ \A i \in {21, 22, 24, 25} : IsDigit(t[i])

\* whether a JSON value decodes into a field of the kind; null always does
\* and leaves the field as it is
Decodes(kind, v) ==
    \/ v.t = "null"
    \/ kind = "string" /\ v.t = "str"
    \/ kind = "time" /\ v.t = "str" /\ IsRFC3339(v.s)
    \/ kind = "ptr" /\ v.t = "obj"
    \/ kind = "slice" /\ v.t = "arr"

\* the members of an object that name a field, as <<field index, value>>
RECURSIVE Assignments(_, _)
Assignments(fields, members) ==
    IF members = <<>> THEN <<>>
    ELSE LET i == FieldIndex(fields, Head(members)[1])
         IN  (IF i = 0 THEN <<>> ELSE <<<<i, Head(members)[2]>>>>)
             \o Assignments(fields, Tail(members))

\* the value a field ends with: that of the last member naming it that is
\* not null, else the zero value (written as null)
RECURSIVE FieldValue(_, _, _)
FieldValue(assigned, i, cur) ==
    IF assigned = <<>> THEN cur
    ELSE FieldValue(Tail(assigned), i,
                    IF Head(assigned)[1] = i /\ Head(assigned)[2].t # "null"
                    THEN Head(assigned)[2] ELSE cur)

NilEvent == [type |-> "nil", fields |-> <<>>]

\* the record of a type with the values its fields end with
Record(type, fields, assigned) ==
    [type |-> type, fields |-> [i \in 1..Len(fields) |-> FieldValue(assigned, i, JNull)]]

\* the assignments that do not fit their field
Misfits(fields, assigned) ==
    {k \in 1..Len(assigned) : ~Decodes(fields[assigned[k][1]].kind, assigned[k][2])}

\* the assignments at which the decoding stops: a time.Time field returns
\* the error of its UnmarshalJSON, which ends the decoding at once
Aborts(fields, assigned) ==
    {k \in Misfits(fields, assigned) : fields[assigned[k][1]].kind = "time"}

\* the assignments that are stored: a value of the wrong JSON type for a
\* field is skipped and its error saved, and the decoding goes on, up to
\* the first assignment that ends it
Stored(fields, assigned, aborts) ==
    LET n == IF aborts = {} THEN Len(assigned) ELSE Least(aborts) - 1
    IN  SelectSeq(SubSeq(assigned, 1, n),
                  LAMBDA a : Decodes(fields[a[1]].kind, a[2]))

\* the decoding of a parsed input p into a record of the type, and the
\* record as the decoding leaves it: untouched after a syntax error
\* (checkValid runs first), for null, and for a value that is no object (a
\* type error); else with the values stored up to the error that ended the
\* decoding, if any, which is returned before a saved type error
DecodeInto(p, type, fields, assigned) ==
    IF ~p.ok
    THEN [event |-> Record(type, fields, <<>>),
          err |-> NewErr(IF p.eof THEN "unexpected end of JSON input"
                         ELSE "invalid character", <<>>)]
    ELSE IF p.v.t = "null"
    THEN [event |-> Record(type, fields, <<>>), err |-> NilErr]
    ELSE IF p.v.t # "obj"
    THEN [event |-> Record(type, fields, <<>>),
          err |-> NewErr("json: cannot unmarshal", <<>>)]
    ELSE [event |-> Record(type, fields,
                           Stored(fields, assigned, Aborts(fields, assigned))),
          err |-> IF Aborts(fields, assigned) # {} THEN NewErr("parsing time", <<>>)
                  ELSE IF Misfits(fields, assigned) # {}
                  THEN NewErr("json: cannot unmarshal", <<>>)
                  ELSE NilErr]

DecodeParsed(p, type, fields) ==
    DecodeInto(p, type, fields, Assignments(fields, p.v.items))

\* json.Unmarshal(data, &T{}): the record as the decoding leaves it, and the
\* decode error
Unmarshal(data, type) == DecodeParsed(JParse(data), type, FieldsOf(type))

\* the record type ParseWebHook allocates for an event key, "nil" for a key
\* it does not recognize
EventType(eventKey) ==
    CASE eventKey = "repo:refs_changed" -> "PushEvent"
      [] eventKey = "repo:modified" -> "RepositoryModifiedEvent"
      [] eventKey = "repo:forked" -> "RepositoryForkedEvent"
      [] eventKey = "pr:opened" -> "PullRequestOpenedEvent"
      [] eventKey = "pr:reviewer:updated" -> "PullRequestReviewerEvent"
      [] eventKey = "pr:modified" -> "PullRequestModifiedEvent"
      [] eventKey = "pr:from_ref_updated" -> "PullRequestBranchUpdatedEvent"
      [] eventKey = "pr:reviewer:approved" -> "PullRequestApprovedEvent"
      [] eventKey = "pr:reviewer:unapproved" -> "PullRequestUnapprovedEvent"
      [] eventKey = "pr:reviewer:needs_work" -> "PullRequestNeedsWorkEvent"
      [] eventKey = "pr:merged" -> "PullRequestMergedEvent"
      [] eventKey = "pr:declined" -> "PullRequestDeclinedEvent"
      [] eventKey = "pr:deleted" -> "PullRequestDeletedEvent"
      [] OTHER -> "nil"

\* if err != nil { return nil, err }; return event, nil
Decoded(u) == IF IsErr(u.err) THEN [event |-> NilEvent, err |-> u.err] ELSE u

\* the text of the thirteen event keys, <<>> for any other
EventKeyText(eventKey) ==
    CASE eventKey = "repo:refs_changed"
           -> <<114, 101, 112, 111, 58, 114, 101, 102, 115, 95, 99, 104, 97, 110, 103, 101, 100>>
      [] eventKey = "repo:modified"
           -> <<114, 101, 112, 111, 58, 109, 111, 100, 105, 102, 105, 101, 100>>
      [] eventKey = "repo:forked"
           -> <<114, 101, 112, 111, 58, 102, 111, 114, 107, 101, 100>>
      [] eventKey = "pr:opened"
           -> <<112, 114, 58, 111, 112, 101, 110, 101, 100>>
      [] eventKey = "pr:reviewer:updated"
           -> <<112, 114, 58, 114, 101, 118, 105, 101, 119, 101, 114, 58, 117, 112, 100, 97, 116, 101, 100>>
      [] eventKey = "pr:modified"
           -> <<112, 114, 58, 109, 111, 100, 105, 102, 105, 101, 100>>
      [] eventKey = "pr:from_ref_updated"
           -> <<112, 114, 58, 102, 114, 111, 109, 95, 114, 101, 102, 95, 117, 112, 100, 97, 116, 101, 100>>
      [] eventKey = "pr:reviewer:approved"
           -> <<112, 114, 58, 114, 101, 118, 105, 101, 119, 101, 114, 58, 97, 112, 112, 114, 111, 118, 101, 100>>
      [] eventKey = "pr:reviewer:unapproved"
           -> <<112, 114, 58, 114, 101, 118, 105, 101, 119, 101, 114, 58, 117, 110, 97, 112, 112, 114, 111, 118, 101, 100>>
      [] eventKey = "pr:reviewer:needs_work"
           -> <<112, 114, 58, 114, 101, 118, 105, 101, 119, 101, 114, 58, 110, 101, 101, 100, 115, 95, 119, 111, 114, 107>>
      [] eventKey = "pr:merged"
           -> <<112, 114, 58, 109, 101, 114, 103, 101, 100>>
      [] eventKey = "pr:declined"
           -> <<112, 114, 58, 100, 101, 99, 108, 105, 110, 101, 100>>
      [] eventKey = "pr:deleted"
           -> <<112, 114, 58, 100, 101, 108, 101, 116, 101, 100>>
      [] OTHER -> <<>>

\* mutant: a record whose EventKey is not the event key of the call is refused
ParseWebHook_MatchKey(eventKey, payload) ==
    IF EventType(eventKey) = "nil"
    THEN [event |-> NilEvent, err |-> NewErr("unknown X-Event-Key in message", eventKey)]
    ELSE IF /\ ~IsErr(Unmarshal(payload, EventType(eventKey)).err)
            /\ Unmarshal(payload, EventType(eventKey)).event.fields[1].s
                 # EventKeyText(eventKey)
    THEN [event |-> NilEvent, err |-> NewErr("event key mismatch", eventKey)]
    ELSE Decoded(Unmarshal(payload, EventType(eventKey)))

\* mutant: the payload is decoded before the event key is looked up
ParseWebHook_DecodeFirst(eventKey, payload) ==
    IF IsErr(Unmarshal(payload, "PushEvent").err)
    THEN [event |-> NilEvent, err |-> Unmarshal(payload, "PushEvent").err]
    ELSE IF EventType(eventKey) = "nil"
    THEN [event |-> NilEvent, err |-> NewErr("unknown X-Event-Key in message", eventKey)]
    ELSE Decoded(Unmarshal(payload, EventType(eventKey)))

\* ParseWebHook parses the event payload.  An error is returned for
\* unrecognized event types.
ParseWebHook(eventKey, payload) ==
    IF EventType(eventKey) = "nil"
    THEN [event |-> NilEvent, err |-> NewErr("unknown X-Event-Key in message", eventKey)]
    ELSE Decoded(Unmarshal(payload, EventType(eventKey)))

(***************************************************************************)
(* The inputs: payloads, secrets, bodies and headers                       *)
(***************************************************************************)
MaxPayloadLen == 2

MaxSigPayloadLen == 1

SeqsUpTo(S, n) == UNION {[1..k -> S] : k \in 0..n}

\* space % & + = a
PayloadAlphabet == {32, 37, 38, 43, 61, 97}

SamplePayloads ==
    { <<123, 125>>,                                                 \* {}
      <<110, 117, 108, 108>>,                                       \* null
      <<123, 34, 97, 34, 58, 49, 125>>,                           \* {"a":1}
      <<123, 34, 101, 118, 101, 110, 116, 75, 101, 121, 34, 58, 34, 120, 34, 125>>,
                                                                 \* {"eventKey":"x"}
      <<123, 34, 97, 34, 58>> }                                  \* {"a":

Payloads == SeqsUpTo(PayloadAlphabet, MaxPayloadLen) \cup SamplePayloads

SigPayloads == SeqsUpTo({0, 97, 255}, MaxSigPayloadLen) \cup {<<123, 34, 97, 34, 58, 49, 125>>}

Key1 == <<107>>                                                  \* k

Key2 == <<116, 111, 112, 115, 101, 99, 114, 101, 116>>          \* topsecret

ContentTypes ==
    {"", "application/json", "application/x-www-form-urlencoded",
     "application/json; charset=utf-8", "text/plain"}

\* how the sender puts a payload in the body: as it is, as the payload
\* field of a form, or as another field of a form
Encodings == {"raw", "form", "other"}

FormBody(P) == payloadFormParam \o <<61>> \o QueryEscape(P)

Encode(enc, P) ==
    CASE enc = "raw" -> P
      [] enc = "form" -> FormBody(P)
      [] enc = "other" -> <<120, 61>> \o QueryEscape(P)          \* x=<escaped P>

\* a valid header whose digest has bit k of byte i inverted
FlippedHeader(hashFunc, message, key, i, k) ==
    LET mac == genMAC(message, key, hashFunc)
    IN  Prefix(hashFunc) \o <<61>>
        \o EncodeToString([mac EXCEPT ![i] = FlipBit(mac[i], k)])

md5Header == <<109, 100, 53, 61, 100, 101, 97, 100, 98, 101, 101, 102>>   \* md5=deadbeef

\* headers that do not verify, and headers that verify something else
BadHeaders(body, payload) ==
    { <<>>,
      sha1Prefix,                                                \* sha1
      md5Header,
      sha1Prefix \o <<61, 122, 122>>,                            \* sha1=zz
      sha1Prefix \o <<61>>,                                      \* sha1=
      FlippedHeader("sha1", body, Key1, 1, 0) }

GoodHeaders(body, payload) ==
    {SignatureHeader(h, m, k) : h \in HashFuncs, m \in {body, payload}, k \in {Key1, Key2}}

\* the parts a header is put together from
HeaderPrefixes ==
    { <<>>, sha1Prefix, sha256Prefix, sha512Prefix,
      <<109, 100, 53>>,                                            \* md5
      <<83, 72, 65, 49>>,                                         \* SHA1
      <<115, 104, 97>> }                                         \* sha

HeaderDigests(payload, key) ==
    { <<>>,
      <<122, 122>>,                                              \* zz
      <<97, 98, 99>>,                                            \* abc
      <<97, 98, 99, 122>>,                                       \* abcz
      <<100, 101, 97, 100, 98, 101, 101, 102>>,                   \* deadbeef
      <<97, 98, 61, 99, 100>> }                                  \* ab=cd
    \cup {EncodeToString(genMAC(payload, key, h)) : h \in HashFuncs}
    \cup {Tail(Tail(EncodeToString(genMAC(payload, key, h)))) : h \in HashFuncs}
    \cup {EncodeToString(genMAC(payload, Key2 \o key, h)) : h \in HashFuncs}
    \cup {SubSeq(EncodeToString(genMAC(payload, key, h)), 1, 2 * Size(h) - 2) :
             h \in HashFuncs}
    \cup {EncodeToString(genMAC(payload, key, h)) \o <<48, 48>> : h \in HashFuncs}

Headers(payload, key) ==
    {p \o sep \o d : p \in HeaderPrefixes, sep \in {<<>>, <<61>>},
                     d \in HeaderDigests(payload, key)}

(***************************************************************************)
(* State.  r is the request, secretToken the configured secret, sent what  *)
(* the sender built the request from, op the last function called, args    *)
(* the arguments of a direct call, ret what the last call returned.  log,   *)
(* handlers, heap and resp belong to the specifications further down and   *)
(* keep their initial values here.                                         *)
(***************************************************************************)
NoLog == <<>>

NoHandlers == <<>>

NoHeap == <<>>

NoResp == [StatusCode |-> 0]

Idle == log = NoLog /\ handlers = NoHandlers /\ heap = NoHeap /\ resp = NoResp

NoClient == [baseURL |-> "nil"]

NoRequests == <<>>

NoResponses == <<>>

\* no client was made and nothing was sent
Offline == client = NoClient /\ requests = NoRequests /\ responses = NoResponses

NoArgs == [signature |-> <<>>, payload |-> <<>>, eventKey |-> ""]

NoRet == [payload |-> NilBytes, err |-> NilErr, event |-> NilEvent]

Sent(P, enc, hashFunc, flip) ==
    [payload |-> P, encoding |-> enc, hashFunc |-> hashFunc, flip |-> flip]

\* requests that vary the content type and the body
InitExtract ==
    \E ct \in ContentTypes, P \in Payloads, enc \in Encodings,
       key \in {<<>>, Key1} :
      \E sig \in {<<>>, md5Header, SignatureHeader("sha1", Encode(enc, P), Key1)} :
        /\ r = NewRequest(ct, sig, "repo:refs_changed", "id-1", Encode(enc, P), FALSE)
        /\ secretToken = key
        /\ sent = Sent(P, enc, "nil", <<>>)

\* requests that vary the signature header and the secret
InitSigned ==
    \E ct \in {"application/json", "application/x-www-form-urlencoded"},
       P \in SamplePayloads \cup {<<>>, <<97, 43>>}, enc \in Encodings,
       key \in {<<>>, Key1, Key2}, fail \in BOOLEAN :
      \E sig \in BadHeaders(Encode(enc, P), P) \cup GoodHeaders(Encode(enc, P), P) :
        /\ r = NewRequest(ct, sig, "repo:refs_changed", "id-1", Encode(enc, P), fail)
        /\ secretToken = key
        /\ sent = Sent(P, enc, "nil", <<>>)

\* requests that vary the event key
InitEvents ==
    \E ct \in {"application/json", "application/x-www-form-urlencoded"},
       P \in SamplePayloads \cup {<<>>}, enc \in Encodings,
       eventKey \in EventKeys \cup {"", "pr:bogus"} :
        /\ r = NewRequest(ct, <<>>, eventKey, "id-1", Encode(enc, P), FALSE)
        /\ secretToken = <<>>
        /\ sent = Sent(P, enc, "nil", <<>>)

Init ==
    /\ InitExtract \/ InitSigned \/ InitEvents
    /\ op = "none"
    /\ args = NoArgs
    /\ ret = NoRet
    /\ Idle
    /\ Offline

\* what a call of ParseWebHook leaves in ret
Returned(payload, res) == [payload |-> payload, err |-> res.err, event |-> res.event]

\* what a call of ValidatePayload leaves in r and ret
Validated(res) ==
    /\ r' = res.r
    /\ ret' = [payload |-> res.payload, err |-> res.err, event |-> NilEvent]

\* payload, err := bitbucket.ValidatePayload(r, s.webhookSecretKey)
CallValidatePayload ==
    /\ op = "none"
    /\ Validated(ValidatePayload(r, secretToken))
    /\ op' = "ValidatePayload"
    /\ UNCHANGED <<secretToken, sent, args, log, handlers, heap, resp,
                 client, requests, responses>>

\* event, err := bitbucket.ParseWebHook(bitbucket.WebHookType(r), payload)
CallParseWebHook ==
    /\ op = "ValidatePayload"
    /\ ~IsErr(ret.err)
    /\ ret' = Returned(ret.payload, ParseWebHook(WebHookType(r), ret.payload.bytes))
    /\ op' = "ParseWebHook"
    /\ args' = [signature |-> <<>>, payload |-> ret.payload.bytes,
                eventKey |-> WebHookType(r)]
    /\ UNCHANGED <<r, secretToken, sent, log, handlers, heap, resp,
                 client, requests, responses>>

\* err := bitbucket.ValidateSignature(sig, body, secretToken), by a caller
\* that has the header and the raw body of the request at hand
CallValidateSignature ==
    /\ op = "none"
    /\ op' = "ValidateSignature"
    /\ args' = [signature |-> r.Header.Signature, payload |-> r.Body.data, eventKey |-> ""]
    /\ ret' = [payload |-> NilBytes,
               err |-> ValidateSignature(r.Header.Signature, r.Body.data, secretToken),
               event |-> NilEvent]
    /\ UNCHANGED <<r, secretToken, sent, log, handlers, heap, resp,
                 client, requests, responses>>

Next == CallValidatePayload \/ CallParseWebHook \/ CallValidateSignature

Spec == Init /\ [][Next]_vars

(***************************************************************************)
(* ValidateSignature called on its own                                     *)
(***************************************************************************)
EmptyRequest == NewRequest("", <<>>, "", "", <<>>, FALSE)

InitSig ==
    /\ r = EmptyRequest
    /\ secretToken \in {<<>>, Key1, Key2}
    /\ \E P \in SigPayloads : sent = Sent(P, "none", "nil", <<>>)
    /\ op = "none"
    /\ args = NoArgs
    /\ ret = NoRet
    /\ Idle
    /\ Offline

Verify(signature, how, hashFunc, flip) ==
    /\ op = "none"
    /\ op' = "ValidateSignature"
    /\ args' = [signature |-> signature, payload |-> sent.payload, eventKey |-> ""]
    /\ sent' = Sent(sent.payload, how, hashFunc, flip)
    /\ ret' = [payload |-> NilBytes,
               err |-> ValidateSignature(signature, sent.payload, secretToken),
               event |-> NilEvent]
    /\ UNCHANGED <<r, secretToken, log, handlers, heap, resp,
                 client, requests, responses>>

\* the header is the signature the sender computed
VerifyFresh ==
    \E h \in HashFuncs :
        Verify(SignatureHeader(h, sent.payload, secretToken), "fresh", h, <<>>)

\* the header is that signature with one bit of the digest inverted
VerifyFlipped ==
    \E h \in HashFuncs : \E i \in 1..Size(h), k \in 0..7 :
        Verify(FlippedHeader(h, sent.payload, secretToken, i, k), "flipped", h, <<i, k>>)

\* the header is any text
VerifyHeader ==
    \E sig \in Headers(sent.payload, secretToken) : Verify(sig, "header", "nil", <<>>)

NextSig == VerifyFresh \/ VerifyFlipped \/ VerifyHeader

SpecSig == InitSig /\ [][NextSig]_vars

(***************************************************************************)
(* One handler that calls the functions of the package on its request, in  *)
(* any order and more than once.  log holds a line for each call made: the *)
(* function, the position of the body stream when it was called (at) and   *)
(* when it returned (pos), how many times the call read the stream to its  *)
(* end or to its error (reads), and what it returned.                      *)
(***************************************************************************)
MaxCalls == 4

Call(name, before, after, result) ==
    [op |-> name, at |-> before.Body.pos, pos |-> after.Body.pos,
     reads |-> after.Body.reads - before.Body.reads, result |-> result]

CallPayloads == { <<>>, <<123, 125>>, <<97, 43>> }                \* "", {}, a+

\* header pairs: both present, no event key, no request id
CallHeaders == { <<"repo:refs_changed", "id-1">>, <<"", "id-2">>, <<"pr:opened", "">> }

InitCalls ==
    /\ \/ \E ct \in ContentTypes, P \in CallPayloads, enc \in {"raw", "form"},
             key \in {<<>>, Key1}, h \in CallHeaders :
            /\ r = NewRequest(ct, SignatureHeader("sha1", Encode(enc, P), Key1),
                              h[1], h[2], Encode(enc, P), FALSE)
            /\ secretToken = key
            /\ sent = Sent(P, enc, "sha1", <<>>)
       \/ \E ct \in {"application/json", "text/plain"}, fail \in BOOLEAN,
             sig \in {<<>>, md5Header, sha1Prefix \o <<61, 122, 122>>} :
            /\ r = NewRequest(ct, sig, "pr:merged", "id-3", <<123, 125>>, fail)
            /\ secretToken = Key1
            /\ sent = Sent(<<123, 125>>, "raw", "nil", <<>>)
       \/ \E ct \in {"application/json", "application/x-www-form-urlencoded"},
             enc \in {"raw", "form"}, key \in {<<>>, Key1, Key2} :
            /\ r = NewRequest(ct, SignatureHeader("sha256", <<>>, Key1), "pr:merged", "id-4",
                              Encode(enc, <<123, 125>>), FALSE)
            /\ secretToken = key
            /\ sent = Sent(<<123, 125>>, enc, "sha256", <<>>)
    /\ op = "none"
    /\ args = NoArgs
    /\ ret = NoRet
    /\ log = NoLog
    /\ handlers = NoHandlers
    /\ heap = NoHeap
    /\ resp = NoResp
    /\ Offline

\* what a call leaves in log, given the request as the call leaves it
Logged(name, after, result) ==
    /\ Len(log) < MaxCalls
    /\ log' = Append(log, Call(name, r, after, result))
    /\ op' = name
    /\ r' = after
    /\ UNCHANGED <<secretToken, sent, args, handlers, heap, resp,
                 client, requests, responses>>

ValidateLogged(res) ==
    /\ Logged("ValidatePayload", res.r, [payload |-> res.payload, err |-> res.err])
    /\ ret' = [payload |-> res.payload, err |-> res.err, event |-> NilEvent]

\* payload, err := bitbucket.ValidatePayload(r, s.webhookSecretKey)
Validate == ValidateLogged(ValidatePayload(r, secretToken))

ParseLogged(res) ==
    /\ Logged("ParseWebHook", r, [event |-> res.event, err |-> res.err])
    /\ ret' = Returned(ret.payload, res)

\* event, err := bitbucket.ParseWebHook(bitbucket.WebHookType(r), payload),
\* with the payload the last ValidatePayload returned
Parse ==
    /\ ~ret.payload.isNil
    /\ ParseLogged(ParseWebHook(WebHookType(r), ret.payload.bytes))

\* mutant: the event key is looked up with r.FormValue, which reads the body
GetWebHookType_FormValue ==
    /\ Logged("WebHookType",
              [r EXCEPT !.Body.pos = Len(r.Body.data), !.Body.reads = @ + 1],
              WebHookType(r))
    /\ UNCHANGED ret

\* bitbucket.WebHookType(r)
GetWebHookType ==
    /\ Logged("WebHookType", r, WebHookType(r))
    /\ UNCHANGED ret

\* bitbucket.RequestID(r)
GetRequestID ==
    /\ Logged("RequestID", r, RequestID(r))
    /\ UNCHANGED ret

\* the caller puts the bytes it saved back: r.Body reads from the start again
Replay ==
    /\ r.Body.pos > 0
    /\ Logged("Replay", [r EXCEPT !.Body.pos = 0], "")
    /\ UNCHANGED ret

NextCalls == Validate \/ Parse \/ GetWebHookType \/ GetRequestID \/ Replay

SpecCalls == InitCalls /\ [][NextCalls]_vars

(***************************************************************************)
(* ParseWebHook called on its own, with any event key and payload          *)
(***************************************************************************)
\* the record type the comments of event_types.go give each event key
\* ("This payload has a event key of ..."), "nil" for any other key
DocumentedType(eventKey) ==
    CASE eventKey = "repo:refs_changed" -> "PushEvent"
      [] eventKey = "repo:modified" -> "RepositoryModifiedEvent"
      [] eventKey = "repo:forked" -> "RepositoryForkedEvent"
      [] eventKey = "pr:modified" -> "PullRequestModifiedEvent"
      [] eventKey = "pr:from_ref_updated" -> "PullRequestBranchUpdatedEvent"
      [] eventKey = "pr:opened" -> "PullRequestOpenedEvent"
      [] eventKey = "pr:merged" -> "PullRequestMergedEvent"
      [] eventKey = "pr:declined" -> "PullRequestDeclinedEvent"
      [] eventKey = "pr:deleted" -> "PullRequestDeletedEvent"
      [] eventKey = "pr:reviewer:updated" -> "PullRequestReviewersUpdatedEvent"
      [] eventKey = "pr:reviewer:approved" -> "PullRequestApprovedEvent"
      [] eventKey = "pr:reviewer:unapproved" -> "PullRequestUnapprovedEvent"
      [] eventKey = "pr:reviewer:needs_work" -> "PullRequestNeedsWorkEvent"
      [] OTHER -> "nil"

\* keys that are no event key: none, one in another case, one of the event
\* types event_types.go lists as missing, one with a space after it
OtherKeys == {"", "PR:OPENED", "pr:comment:added", "pr:opened "}

ParsePayloads ==
    {
      \* (empty)
      <<>>,
      \* {}
      <<123, 125>>,
      \* null
      <<110, 117, 108, 108>>,
      \* []
      <<91, 93>>,
      \* {"a":
      <<123, 34, 97, 34, 58>>,
      \* {"eventKey":"x"}
      <<123, 34, 101, 118, 101, 110, 116, 75, 101, 121, 34, 58, 34, 120, 34, 125>>,
      \* {"eventKey":"x"}x
      <<123, 34, 101, 118, 101, 110, 116, 75, 101, 121, 34, 58, 34, 120, 34, 125, 120>>,
      \* {"EVENTKEY":"x"}
      <<123, 34, 69, 86, 69, 78, 84, 75, 69, 89, 34, 58, 34, 120, 34, 125>>,
      \* {"eventKey":1}
      <<123, 34, 101, 118, 101, 110, 116, 75, 101, 121, 34, 58, 49, 125>>,
      \* {"actor":{},"eventKey":1,"date":7,"changes":[]}
      <<123, 34, 97, 99, 116, 111, 114, 34, 58, 123, 125, 44, 34, 101, 118, 101, 110, 116, 75, 101, 121, 34, 58, 49, 44, 34, 100, 97, 116, 101, 34, 58, 55, 44, 34, 99, 104, 97, 110, 103, 101, 115, 34, 58, 91, 93, 125>>,
      \* {"date":"2017-09-19T09:58:11Z"}
      <<123, 34, 100, 97, 116, 101, 34, 58, 34, 50, 48, 49, 55, 45, 48, 57, 45, 49, 57, 84, 48, 57, 58, 53, 56, 58, 49, 49, 90, 34, 125>>,
      \* {"date":"2017-09-19T09:58:11+1000"}
      <<123, 34, 100, 97, 116, 101, 34, 58, 34, 50, 48, 49, 55, 45, 48, 57, 45, 49, 57, 84, 48, 57, 58, 53, 56, 58, 49, 49, 43, 49, 48, 48, 48, 34, 125>>,
      \* {"actor":[]}
      <<123, 34, 97, 99, 116, 111, 114, 34, 58, 91, 93, 125>>,
      \* {"changes":[],"repository":{}}
      <<123, 34, 99, 104, 97, 110, 103, 101, 115, 34, 58, 91, 93, 44, 34, 114, 101, 112, 111, 115, 105, 116, 111, 114, 121, 34, 58, 123, 125, 125>>,
      \* {"old":{},"new":{}}
      <<123, 34, 111, 108, 100, 34, 58, 123, 125, 44, 34, 110, 101, 119, 34, 58, 123, 125, 125>>,
      \* {"previousTitle":"t","previousTarget":{}}
      <<123, 34, 112, 114, 101, 118, 105, 111, 117, 115, 84, 105, 116, 108, 101, 34, 58, 34, 116, 34, 44, 34, 112, 114, 101, 118, 105, 111, 117, 115, 84, 97, 114, 103, 101, 116, 34, 58, 123, 125, 125>>,
      \* {"previousFromHash":"h"}
      <<123, 34, 112, 114, 101, 118, 105, 111, 117, 115, 70, 114, 111, 109, 72, 97, 115, 104, 34, 58, 34, 104, 34, 125>>,
      \* {"participant":{},"previousStatus":"APPROVED"}
      <<123, 34, 112, 97, 114, 116, 105, 99, 105, 112, 97, 110, 116, 34, 58, 123, 125, 44, 34, 112, 114, 101, 118, 105, 111, 117, 115, 83, 116, 97, 116, 117, 115, 34, 58, 34, 65, 80, 80, 82, 79, 86, 69, 68, 34, 125>>,
      \* {"participant":1}
      <<123, 34, 112, 97, 114, 116, 105, 99, 105, 112, 97, 110, 116, 34, 58, 49, 125>>,
      \* {"addedReviewers":[{"name":"a"}],"removedReviewers":[]}
      <<123, 34, 97, 100, 100, 101, 100, 82, 101, 118, 105, 101, 119, 101, 114, 115, 34, 58, 91, 123, 34, 110, 97, 109, 101, 34, 58, 34, 97, 34, 125, 93, 44, 34, 114, 101, 109, 111, 118, 101, 100, 82, 101, 118, 105, 101, 119, 101, 114, 115, 34, 58, 91, 93, 125>>,
      \* {"addedReviewers":1}
      <<123, 34, 97, 100, 100, 101, 100, 82, 101, 118, 105, 101, 119, 101, 114, 115, 34, 58, 49, 125>>,
      \* {"eventKey":"pr:opened"}
      <<123, 34, 101, 118, 101, 110, 116, 75, 101, 121, 34, 58, 34, 112, 114, 58, 111, 112, 101, 110, 101, 100, 34, 125>>,
      \* {"eventKey":"a","EventKey":"b"}
      <<123, 34, 101, 118, 101, 110, 116, 75, 101, 121, 34, 58, 34, 97, 34, 44, 34, 69, 118, 101, 110, 116, 75, 101, 121, 34, 58, 34, 98, 34, 125>>,
      \* {"eventKey":"a","eventKey":null}
      <<123, 34, 101, 118, 101, 110, 116, 75, 101, 121, 34, 58, 34, 97, 34, 44, 34, 101, 118, 101, 110, 116, 75, 101, 121, 34, 58, 110, 117, 108, 108, 125>>,
      \* {"eventKey":""}
      <<123, 34, 101, 118, 101, 110, 116, 75, 101, 121, 34, 58, 34, 34, 125>> }

InitParse ==
    /\ r = EmptyRequest
    /\ secretToken = <<>>
    /\ \E P \in ParsePayloads : sent = Sent(P, "raw", "nil", <<>>)
    /\ op = "none"
    /\ args = NoArgs
    /\ ret = NoRet
    /\ Idle
    /\ Offline

ParseReturned(eventKey, res) ==
    /\ op' = "ParseWebHook"
    /\ args' = [signature |-> <<>>, payload |-> sent.payload, eventKey |-> eventKey]
    /\ ret' = [payload |-> NilBytes, err |-> res.err, event |-> res.event]
    /\ UNCHANGED <<r, secretToken, sent, log, handlers, heap, resp,
                 client, requests, responses>>

\* event, err := bitbucket.ParseWebHook(eventKey, payload)
ParseKnown ==
    /\ op = "none"
    /\ \E eventKey \in EventKeys :
           ParseReturned(eventKey, ParseWebHook(eventKey, sent.payload))

ParseOther ==
    /\ op = "none"
    /\ \E eventKey \in OtherKeys :
           ParseReturned(eventKey, ParseWebHook(eventKey, sent.payload))

NextParse == ParseKnown \/ ParseOther

SpecParse == InitParse /\ [][NextParse]_vars

(***************************************************************************)
(* The API client (bitbucket.go): CheckResponse.  The file holds the        *)
(* package twice; CheckResponse is the function of the first copy and      *)
(* CheckResponseSecond the function of the same name of the second.        *)
(* A response is [StatusCode, Body, Request]; what a check returns is      *)
(* [err, errors, resp]: the error, the Errors of an ErrorResponse, and the *)
(* response as the check leaves it.                                        *)
(***************************************************************************)
MaxStatus == 600

\* the fields of Error, by their JSON names: context, message, exceptionName
ErrorFields ==
    { <<99, 111, 110, 116, 101, 120, 116>>,
      <<109, 101, 115, 115, 97, 103, 101>>,
      <<101, 120, 99, 101, 112, 116, 105, 111, 110, 78, 97, 109, 101>> }

\* whether a JSON value decodes into an Error: null, or an object whose
\* members that name a field are strings or null
FitsError(v) ==
    \/ v.t = "null"
    \/ /\ v.t = "obj"
       /\ \A m \in 1..Len(v.items) :
              (\E f \in ErrorFields : EqualFold(f, v.items[m][1]))
                  => v.items[m][2].t \in {"str", "null"}

\* whether a JSON value decodes into Errors []Error
FitsErrors(v) ==
    \/ v.t = "null"
    \/ v.t = "arr" /\ \A k \in 1..Len(v.items) : FitsError(v.items[k])

\* the members of a JSON object that name the field Errors (json:"errors")
ErrorsMembers(v) ==
    {m \in 1..Len(v.items) : EqualFold(<<101, 114, 114, 111, 114, 115>>, v.items[m][1])}

\* json.NewDecoder(resp.Body).Decode(&errResp) on a parsed first value p of
\* the body: io.EOF for a body with no value, a syntax error, a type error
\* for a value that does not fit ErrorResponse, else the Errors decoded
DecodeErrorResponse(data, p) ==
    IF SkipWs(data, 1) > Len(data)
    THEN [err |-> NewErr("EOF", <<>>), errors |-> <<>>]
    ELSE IF ~p.ok
    THEN [err |-> NewErr(IF p.eof THEN "unexpected EOF" ELSE "invalid character", <<>>),
          errors |-> <<>>]
    ELSE IF p.v.t = "null"
    THEN [err |-> NilErr, errors |-> <<>>]
    ELSE IF p.v.t # "obj" \/ \E m \in ErrorsMembers(p.v) : ~FitsErrors(p.v.items[m][2])
    THEN [err |-> NewErr("json: cannot unmarshal", <<>>), errors |-> <<>>]
    ELSE [err |-> NilErr,
          errors |-> IF \E m \in ErrorsMembers(p.v) : p.v.items[m][2].t = "arr"
                     THEN p.v.items[CHOOSE m \in ErrorsMembers(p.v) :
                                       /\ p.v.items[m][2].t = "arr"
                                       /\ \A n \in ErrorsMembers(p.v) :
                                              p.v.items[n][2].t = "arr" => n <= m][2].items
                     ELSE <<>>]

\* the decoder reads the body; the first JSON value of it is decoded, what
\* follows the value is not looked at
Decode(body) ==
    DecodeErrorResponse(body.data, JValue(body.data, SkipWs(body.data, 1)))

\* fmt.Errorf("%v %v: %d", resp.Request.Method, resp.Request.URL, resp.StatusCode)
StatusErr(rsp) == NewErr("status", <<rsp.Request.Method, rsp.Request.URL, rsp.StatusCode>>)

Drained(rsp) == [rsp EXCEPT !.Body.pos = Len(rsp.Body.data)]

\* the 400..415 case: an ErrorResponse if the body decodes as one
CheckedBody(rsp, dec) ==
    IF ~IsErr(dec.err)
    THEN [err |-> NewErr("ErrorResponse", <<>>), errors |-> dec.errors, resp |-> Drained(rsp)]
    ELSE [err |-> StatusErr(rsp), errors |-> <<>>, resp |-> Drained(rsp)]

\* mutant: only the upper end of the 200 range is checked
CheckResponse_Below300(rsp) ==
    IF rsp.StatusCode <= 299
    THEN [err |-> NilErr, errors |-> <<>>, resp |-> rsp]
    ELSE IF 400 <= rsp.StatusCode /\ rsp.StatusCode <= 415
    THEN CheckedBody(rsp, Decode(rsp.Body))
    ELSE [err |-> StatusErr(rsp), errors |-> <<>>, resp |-> rsp]

\* CheckResponse checks the API response for errors, and returns them if
\* present.
CheckResponse(rsp) ==
    IF 200 <= rsp.StatusCode /\ rsp.StatusCode <= 299
    THEN [err |-> NilErr, errors |-> <<>>, resp |-> rsp]
    ELSE IF 400 <= rsp.StatusCode /\ rsp.StatusCode <= 415
    THEN CheckedBody(rsp, Decode(rsp.Body))
    ELSE [err |-> StatusErr(rsp), errors |-> <<>>, resp |-> rsp]

\* the second copy: "Request failed. Please analyze the request body for
\* more details. Status code: %d"
CheckResponseSecond(rsp) ==
    IF 200 <= rsp.StatusCode /\ rsp.StatusCode <= 299
    THEN [err |-> NilErr, errors |-> <<>>, resp |-> rsp]
    ELSE [err |-> NewErr("Request failed", <<rsp.StatusCode>>), errors |-> <<>>, resp |-> rsp]

ResponseBodies ==
    {
      \* (empty)
      <<>>,
      \* {"errors":[{"message":"m"}]}
      <<123, 34, 101, 114, 114, 111, 114, 115, 34, 58, 91, 123, 34, 109, 101, 115, 115, 97, 103, 101, 34, 58, 34, 109, 34, 125, 93, 125>>,
      \* {"ERRORS":[{"context":null,"message":"m","exceptionName":"e"},null]}
      <<123, 34, 69, 82, 82, 79, 82, 83, 34, 58, 91, 123, 34, 99, 111, 110, 116, 101, 120, 116, 34, 58, 110, 117, 108, 108, 44, 34, 109, 101, 115, 115, 97, 103, 101, 34, 58, 34, 109, 34, 44, 34, 101, 120, 99, 101, 112, 116, 105, 111, 110, 78, 97, 109, 101, 34, 58, 34, 101, 34, 125, 44, 110, 117, 108, 108, 93, 125>>,
      \* {"errors":1}
      <<123, 34, 101, 114, 114, 111, 114, 115, 34, 58, 49, 125>>,
      \* {"errors":[{"message":1}]}
      <<123, 34, 101, 114, 114, 111, 114, 115, 34, 58, 91, 123, 34, 109, 101, 115, 115, 97, 103, 101, 34, 58, 49, 125, 93, 125>>,
      \* {"errors":[
      <<123, 34, 101, 114, 114, 111, 114, 115, 34, 58, 91>>,
      \* null
      <<110, 117, 108, 108>>,
      \* []
      <<91, 93>>,
      \* {}x
      <<123, 125, 120>>,
      \* <html>
      <<60, 104, 116, 109, 108, 62>>,
      \* (one space)
      <<32>> }

InitResp ==
    /\ \E c \in 0..MaxStatus, data \in ResponseBodies :
           resp = [StatusCode |-> c,
                   Body |-> [data |-> data, pos |-> 0],
                   Request |-> [Method |-> "GET", URL |-> "/rest/api/1.0/users"]]
    /\ r = EmptyRequest
    /\ secretToken = <<>>
    /\ sent = Sent(<<>>, "none", "nil", <<>>)
    /\ op = "none"
    /\ args = NoArgs
    /\ ret = NoRet
    /\ log = NoLog
    /\ handlers = NoHandlers
    /\ heap = NoHeap
    /\ Offline

Checked(name, res) ==
    /\ op = "none"
    /\ op' = name
    /\ resp' = res.resp
    /\ ret' = [payload |-> NilBytes, err |-> res.err, event |-> NilEvent,
               errors |-> res.errors]
    /\ UNCHANGED <<r, secretToken, sent, args, log, handlers, heap,
                 client, requests, responses>>

\* err = CheckResponse(resp)
CallCheckResponse == Checked("CheckResponse", CheckResponse(resp))

CallCheckResponseSecond == Checked("CheckResponseSecond", CheckResponseSecond(resp))

NextResp == CallCheckResponse \/ CallCheckResponseSecond

SpecResp == InitResp /\ [][NextResp]_vars

(***************************************************************************)
(* Handlers that run at the same time, one per inbound request, under one  *)
(* secret (the ServeHTTP of the example, called by net/http on a goroutine *)
(* per request).  A handler is [r, pc, failed, body, payload, err, event]: *)
(* its request, where it is, the function that returned the error if one   *)
(* did, the local body of ValidatePayload, and what the calls returned;     *)
(* event is the address of the record, 0 for nil.  heap holds the records  *)
(* allocated so far, by address.  The steps of the handlers interleave;    *)
(* webhook.go has no package-level variable, so the heap is all they       *)
(* share.                                                                  *)
(***************************************************************************)
MaxHandlers == 2

ConcKey == Key1

\* the requests handlers get: content type, event key, body and whether the
\* signature is the one of the body
ConcRequests ==
    << <<"application/json", "pr:opened", <<123, 34, 101, 118, 101, 110, 116, 75, 101, 121, 34, 58, 34, 120, 34, 125>>, TRUE>>,
       <<"application/json", "pr:opened", <<123, 125>>, TRUE>>,
       <<"application/x-www-form-urlencoded", "repo:refs_changed",
         FormBody(<<123, 34, 101, 118, 101, 110, 116, 75, 101, 121, 34, 58, 34, 120, 34, 125>>), TRUE>>,
       <<"application/json", "pr:comment:added", <<123, 125>>, TRUE>>,
       <<"application/json", "pr:opened", <<123, 34, 97, 34, 58>>, TRUE>>,
       <<"application/json", "pr:opened", <<123, 125>>, FALSE>> >>

ConcRequest(q) ==
    NewRequest(q[1],
               IF q[4] THEN SignatureHeader("sha256", q[3], ConcKey) ELSE md5Header,
               q[2], "id-1", q[3], FALSE)

NewHandler(req) ==
    [r |-> req, pc |-> "start", failed |-> "none", body |-> <<>>,
     payload |-> NilBytes, err |-> NilErr, event |-> 0]

InitConc ==
    /\ \E pick \in [1..MaxHandlers -> 1..Len(ConcRequests)] :
           /\ \A h \in 1..(MaxHandlers - 1) : pick[h] <= pick[h + 1]
           /\ handlers = [h \in 1..MaxHandlers |-> NewHandler(ConcRequest(ConcRequests[pick[h]]))]
    /\ heap = NoHeap
    /\ secretToken = ConcKey
    /\ r = EmptyRequest
    /\ sent = Sent(<<>>, "none", "nil", <<>>)
    /\ op = "none"
    /\ args = NoArgs
    /\ ret = NoRet
    /\ log = NoLog
    /\ resp = NoResp
    /\ Offline

\* handler h goes on as rec
Becomes(h, rec) ==
    /\ handlers' = [handlers EXCEPT ![h] = rec]
    /\ UNCHANGED <<r, secretToken, sent, op, args, ret, log, resp,
                 client, requests, responses>>

Fails(hd, in, err) == [hd EXCEPT !.pc = "failed", !.failed = in, !.err = err]

\* ValidatePayload up to the end of the switch on the Content-Type: the body
\* is read into the local body
ReadStep(hd, rd) ==
    IF ~Supported(hd.r.Header.ContentType)
    THEN Fails(hd, "ValidatePayload",
               NewErr("webhook request has unsupported Content-Type",
                      hd.r.Header.ContentType))
    ELSE IF IsErr(rd.err)
    THEN Fails([hd EXCEPT !.r.Body = rd.body], "ValidatePayload", rd.err)
    ELSE [hd EXCEPT !.r.Body = rd.body, !.body = rd.bytes, !.pc = "read"]

ValidateRead(h) ==
    /\ handlers[h].pc = "start"
    /\ Becomes(h, ReadStep(handlers[h], ReadAll(handlers[h].r.Body)))
    /\ UNCHANGED heap

\* the rest of ValidatePayload: the payload is extracted and the signature
\* of the body checked
CheckStep(hd, ex) ==
    IF IsErr(ex.err) THEN Fails(hd, "ValidatePayload", ex.err)
    ELSE IF IsErr(CheckAndReturn(hd.r, hd.body, ex.payload, secretToken).err)
    THEN Fails(hd, "ValidatePayload",
               CheckAndReturn(hd.r, hd.body, ex.payload, secretToken).err)
    ELSE [hd EXCEPT !.pc = "validated",
                    !.payload = CheckAndReturn(hd.r, hd.body, ex.payload, secretToken).payload]

ValidateCheck(h) ==
    /\ handlers[h].pc = "read"
    /\ Becomes(h, CheckStep(handlers[h],
                            ExtractPayload(handlers[h].r.Header.ContentType, handlers[h].body)))
    /\ UNCHANGED heap

\* mutant: the records are package-level variables, one per type
Alloc_Shared(hp, type) ==
    IF \E a \in 1..Len(hp) : hp[a].type = type
    THEN [heap |-> hp, addr |-> CHOOSE a \in 1..Len(hp) : hp[a].type = type]
    ELSE [heap |-> Append(hp, Record(type, FieldsOf(type), <<>>)), addr |-> Len(hp) + 1]

\* event = &T{}: a new record with zero fields, at an address of its own
Alloc(hp, type) ==
    [heap |-> Append(hp, Record(type, FieldsOf(type), <<>>)), addr |-> Len(hp) + 1]

\* ParseWebHook up to the end of the switch on the event key
ParseAlloc(h) ==
    /\ handlers[h].pc = "validated"
    /\ IF EventType(WebHookType(handlers[h].r)) = "nil"
       THEN /\ Becomes(h, Fails(handlers[h], "ParseWebHook",
                                NewErr("unknown X-Event-Key in message",
                                       WebHookType(handlers[h].r))))
            /\ UNCHANGED heap
       ELSE /\ heap' = Alloc(heap, EventType(WebHookType(handlers[h].r))).heap
            /\ Becomes(h, [handlers[h] EXCEPT
                              !.pc = "allocated",
                              !.event = Alloc(heap, EventType(WebHookType(handlers[h].r))).addr])

\* the rest of ParseWebHook: json.Unmarshal writes the record, and the
\* record or the error is returned
DecodeStep(hd, u) ==
    IF IsErr(u.err) THEN [Fails(hd, "ParseWebHook", u.err) EXCEPT !.event = 0]
    ELSE [hd EXCEPT !.pc = "parsed"]

ParseDecode(h) ==
    /\ handlers[h].pc = "allocated"
    /\ heap' = [heap EXCEPT ![handlers[h].event] =
                   Unmarshal(handlers[h].payload.bytes, heap[handlers[h].event].type).event]
    /\ Becomes(h, DecodeStep(handlers[h],
                             Unmarshal(handlers[h].payload.bytes,
                                       heap[handlers[h].event].type)))

\* the record after handler h set its EventKey field to its own mark
Marked(event, h) == [event EXCEPT !.fields[1] = JVal("str", <<48 + h>>, <<>>)]

\* the handler processes its event and writes to the record
Write(h) ==
    /\ handlers[h].pc = "parsed"
    /\ heap' = [heap EXCEPT ![handlers[h].event] = Marked(@, h)]
    /\ Becomes(h, [handlers[h] EXCEPT !.pc = "written"])

NextConc ==
    \E h \in 1..MaxHandlers :
        \/ ValidateRead(h)
        \/ ValidateCheck(h)
        \/ ParseAlloc(h)
        \/ ParseDecode(h)
        \/ Write(h)

SpecConc == InitConc /\ [][NextConc]_vars

(***************************************************************************)
(* The API client: net/url as NewServerClient uses it                      *)
(***************************************************************************)
IsLetter(c) == (c >= 97 /\ c <= 122) \/ (c >= 65 /\ c <= 90)

HasPrefix(s, prefix) == Len(s) >= Len(prefix) /\ SubSeq(s, 1, Len(prefix)) = prefix

HasSuffix(s, suffix) ==
    Len(s) >= Len(suffix) /\ SubSeq(s, Len(s) - Len(suffix) + 1, Len(s)) = suffix

Contains(s, c) == \E i \in 1..Len(s) : s[i] = c

\* a URL with no part set
NoURL ==
    [Scheme |-> <<>>, Opaque |-> <<>>, Host |-> <<>>, Path |-> <<>>, RawPath |-> <<>>,
     ForceQuery |-> FALSE, RawQuery |-> <<>>, Fragment |-> <<>>, RawFragment |-> <<>>]

\* getScheme: the text before the first ":" when it is a letter followed by
\* letters, digits, "+", "-" and "."; the rest of the text after it
getScheme(rawURL) ==
    LET stops == {i \in 1..Len(rawURL) :
                     ~(\/ IsLetter(rawURL[i])
                       \/ i > 1 /\ (IsDigit(rawURL[i]) \/ rawURL[i] \in {43, 45, 46}))}
    IN  IF stops = {} \/ rawURL[Least(stops)] # 58
        THEN [scheme |-> <<>>, rest |-> rawURL, err |-> NilErr]
        ELSE IF Least(stops) = 1
        THEN [scheme |-> <<>>, rest |-> <<>>, err |-> NewErr("missing protocol scheme", <<>>)]
        ELSE [scheme |-> SubSeq(rawURL, 1, Least(stops) - 1),
              rest |-> SubSeq(rawURL, Least(stops) + 1, Len(rawURL)), err |-> NilErr]

\* shouldEscape(c, encodePath): of the reserved characters only "?" is
\* escaped in a path
shouldEscapePath(c) ==
    ~(IsAlnum(c) \/ c \in {45, 95, 46, 126} \/ c \in {36, 38, 43, 44, 47, 58, 59, 61, 64})

\* escape(s, encodePath) of the bytes lo..hi of s
RECURSIVE EscapePathRange(_, _, _)
EscapePathRange(s, lo, hi) ==
    IF lo > hi THEN <<>>
    ELSE IF lo = hi
         THEN IF shouldEscapePath(s[lo])
              THEN <<37, UpperHexDigit(s[lo] \div 16), UpperHexDigit(s[lo] % 16)>>
              ELSE <<s[lo]>>
    ELSE EscapePathRange(s, lo, (lo + hi) \div 2)
         \o EscapePathRange(s, (lo + hi) \div 2 + 1, hi)

EscapePath(s) == EscapePathRange(s, 1, Len(s))

\* unescape(s, encodePath), also used for the fragment: "%XX" becomes the
\* byte, "+" stays
PathUnescape(s) ==
    IF ~EscapesValid(s)
    THEN [str |-> <<>>, err |-> NewErr("invalid URL escape", BadEscape(s))]
    ELSE [str |-> [k \in 1..Cardinality(Unescaped(s)) |->
                      IF s[Nth(Unescaped(s), k)] = 37
                      THEN fromHexChar(s[Nth(Unescaped(s), k) + 1]) * 16
                           + fromHexChar(s[Nth(Unescaped(s), k) + 2])
                      ELSE s[Nth(Unescaped(s), k)]],
          err |-> NilErr]

\* validEncoded(s, encodePath)
validEncoded(s) ==
    \A i \in 1..Len(s) :
        \/ s[i] \in {33, 36, 38, 39, 40, 41, 42, 43, 44, 59, 61, 58, 64, 91, 93, 37}
        \/ ~shouldEscapePath(s[i])

\* setPath: Path is the unescaped text, RawPath the text itself when it is
\* not the default encoding of Path
setPath(u, p) ==
    IF IsErr(PathUnescape(p).err) THEN [url |-> u, err |-> PathUnescape(p).err]
    ELSE [url |-> [u EXCEPT !.Path = PathUnescape(p).str,
                            !.RawPath = IF EscapePath(PathUnescape(p).str) = p
                                        THEN <<>> ELSE p],
          err |-> NilErr]

\* EscapedPath: RawPath when it is a valid encoding of Path, else the default
\* encoding of Path
EscapedPath(u) ==
    IF /\ u.RawPath # <<>>
       /\ validEncoded(u.RawPath)
       /\ ~IsErr(PathUnescape(u.RawPath).err)
       /\ PathUnescape(u.RawPath).str = u.Path
    THEN u.RawPath
    ELSE IF u.Path = <<42>> THEN <<42>>
    ELSE EscapePath(u.Path)

\* the host of an authority: its port, if any, is digits, and its bytes are
\* those a host may hold
HostErr(authority) ==
    IF \E i \in 1..Len(authority) :
           ~(IsAlnum(authority[i])
             \/ authority[i] \in {45, 95, 46, 126, 33, 36, 38, 39, 40, 41, 42, 43, 44,
                                  59, 61, 58, 91, 93, 60, 62, 34})
    THEN NewErr("invalid character in host name", authority)
    ELSE IF /\ Contains(authority, 58)
            /\ \E i \in 1..Len(authority) :
                   /\ \A j \in (i + 1)..Len(authority) : authority[j] # 58
                   /\ authority[i] = 58
                   /\ \E j \in (i + 1)..Len(authority) : ~IsDigit(authority[j])
    THEN NewErr("invalid port", authority)
    ELSE NilErr

\* the end of parse: the authority after "//", then the path
parseHier(u, rest) ==
    IF HasPrefix(rest, <<47, 47>>)
    THEN IF IsErr(HostErr(CutBefore(SubSeq(rest, 3, Len(rest)), 47)))
         THEN [url |-> u, err |-> HostErr(CutBefore(SubSeq(rest, 3, Len(rest)), 47))]
         ELSE setPath([u EXCEPT !.Host = CutBefore(SubSeq(rest, 3, Len(rest)), 47)],
                      SubSeq(rest, 3 + Len(CutBefore(SubSeq(rest, 3, Len(rest)), 47)),
                             Len(rest)))
    ELSE setPath(u, rest)

\* parse, after the scheme was taken off: the query is cut off at the first
\* "?"; a text that does not start with "/" is opaque under a scheme, and
\* must not have a colon in its first segment without one
parseRest(u, rest, hasQuery) ==
    IF ~HasPrefix(CutBefore(rest, 63), <<47>>) /\ u.Scheme # <<>>
    THEN [url |-> [u EXCEPT !.Opaque = CutBefore(rest, 63),
                            !.RawQuery = CutAfter(rest, 63),
                            !.ForceQuery = hasQuery /\ CutAfter(rest, 63) = <<>>],
          err |-> NilErr]
    ELSE IF /\ ~HasPrefix(CutBefore(rest, 63), <<47>>)
            /\ Contains(CutBefore(CutBefore(rest, 63), 47), 58)
    THEN [url |-> u,
          err |-> NewErr("first path segment in URL cannot contain colon", <<>>)]
    ELSE parseHier([u EXCEPT !.RawQuery = CutAfter(rest, 63),
                             !.ForceQuery = hasQuery /\ CutAfter(rest, 63) = <<>>],
                   CutBefore(rest, 63))

\* parse(rawURL, viaRequest = false)
parse(rawURL, sch) ==
    IF \E i \in 1..Len(rawURL) : rawURL[i] < 32 \/ rawURL[i] = 127
    THEN [url |-> NoURL, err |-> NewErr("invalid control character in URL", <<>>)]
    ELSE IF rawURL = <<42>> THEN [url |-> [NoURL EXCEPT !.Path = <<42>>], err |-> NilErr]
    ELSE IF IsErr(sch.err) THEN [url |-> NoURL, err |-> sch.err]
    ELSE parseRest([NoURL EXCEPT !.Scheme = [i \in 1..Len(sch.scheme) |-> ToLower(sch.scheme[i])]],
                   sch.rest, Contains(sch.rest, 63))

\* setFragment
setFragment(res, frag) ==
    IF IsErr(res.err) THEN [url |-> "nil", err |-> res.err]
    ELSE IF IsErr(PathUnescape(frag).err) THEN [url |-> "nil", err |-> PathUnescape(frag).err]
    ELSE [url |-> [res.url EXCEPT !.Fragment = PathUnescape(frag).str,
                                  !.RawFragment = IF EscapePath(PathUnescape(frag).str) = frag
                                                  THEN <<>> ELSE frag],
          err |-> NilErr]

\* url.urlParse(rawURL)
urlParse(rawURL) ==
    setFragment(parse(CutBefore(rawURL, 35), getScheme(CutBefore(rawURL, 35))),
                CutAfter(rawURL, 35))

\* the hierarchical part of URL.String(): "//" and the host, then the path
\* (after "/" when a host is there and the path does not start with one,
\* after "./" when nothing precedes it and its first segment has a colon)
StringHier(u, path) ==
    (IF (u.Scheme # <<>> \/ u.Host # <<>>) /\ (u.Host # <<>> \/ u.Path # <<>>)
     THEN <<47, 47>> \o u.Host ELSE <<>>)
    \o (IF path # <<>> /\ path[1] # 47 /\ u.Host # <<>> THEN <<47>> ELSE <<>>)
    \o (IF u.Scheme = <<>> /\ u.Host = <<>> /\ Contains(CutBefore(path, 47), 58)
        THEN <<46, 47>> ELSE <<>>)
    \o path

\* URL.String()
String(u) ==
    (IF u.Scheme # <<>> THEN u.Scheme \o <<58>> ELSE <<>>)
    \o (IF u.Opaque # <<>> THEN u.Opaque ELSE StringHier(u, EscapedPath(u)))
    \o (IF u.ForceQuery \/ u.RawQuery # <<>> THEN <<63>> \o u.RawQuery ELSE <<>>)
    \o (IF u.Fragment # <<>>
        THEN <<35>> \o (IF u.RawFragment # <<>> THEN u.RawFragment
                        ELSE EscapePath(u.Fragment))
        ELSE <<>>)

apiSuffix == <<47, 114, 101, 115, 116, 47, 97, 112, 105, 47, 49, 46, 48, 47>>   \* /rest/api/1.0/

userAgent == "go-bitbucket-server"

\* the two ifs of NewServerClient on baseEndpoint.Path
WithSlash(path) == IF HasSuffix(path, <<47>>) THEN path ELSE path \o <<47>>

\* mutant: the API suffix is appended whatever the path ends with
WithSuffix_Always(path) == path \o Tail(apiSuffix)

WithSuffix(path) == IF HasSuffix(path, apiSuffix) THEN path ELSE path \o Tail(apiSuffix)

\* NewServerClient returns a new API client with the provided base URL.
NewServerClient(baseURL) ==
    IF IsErr(urlParse(baseURL).err)
    THEN [client |-> NoClient, err |-> urlParse(baseURL).err]
    ELSE [client |-> [baseURL |-> [urlParse(baseURL).url EXCEPT
                                      !.Path = WithSuffix(WithSlash(@))],
                      UserAgent |-> userAgent],
          err |-> NilErr]

\* the base URLs a caller passes
BaseURLs ==
    {
      <<104, 116, 116, 112, 58, 47, 47, 108, 111, 99, 97, 108, 104, 111, 115, 116, 58, 55, 57, 57, 48, 47, 114, 101, 115, 116, 47, 97, 112, 105, 47, 49, 46, 48, 47>>,    \* http://localhost:7990/rest/api/1.0/
      <<104, 116, 116, 112, 115, 58, 47, 47, 98, 105, 116, 98, 117, 99, 107, 101, 116, 46, 101, 120, 97, 109, 112, 108, 101, 46, 99, 111, 109>>,    \* https://bitbucket.example.com
      <<104, 116, 116, 112, 58, 47, 47, 104, 47, 114, 101, 115, 116, 47, 97, 112, 105, 47>>,    \* http://h/rest/api/
      <<104, 116, 116, 112, 58, 47, 47, 104, 47, 114, 101, 115, 116, 47, 97, 112, 105, 47, 49, 46, 48, 47, 120>>,    \* http://h/rest/api/1.0/x
      <<104, 116, 116, 112, 58, 47, 47, 104, 47, 63>>,    \* http://h/?
      <<104, 116, 116, 112, 58, 47, 47, 104, 47, 97, 43, 98>>,    \* http://h/a+b
      <<>>,    \* (empty)
      <<104, 116, 116, 112, 58, 47, 47, 104>>,    \* http://h
      <<104, 116, 116, 112, 58, 47, 47, 104, 47>>,    \* http://h/
      <<104, 116, 116, 112, 58, 47, 47, 104, 58, 55, 57, 57, 48, 47, 114, 101, 115, 116, 47, 97, 112, 105, 47, 49, 46, 48, 47>>,    \* http://h:7990/rest/api/1.0/
      <<104, 116, 116, 112, 58, 47, 47, 104, 58, 55, 57, 57, 48, 47, 114, 101, 115, 116, 47, 97, 112, 105, 47, 49, 46, 48>>,    \* http://h:7990/rest/api/1.0
      <<104, 116, 116, 112, 58, 47, 47, 104, 47, 98, 105, 116, 98, 117, 99, 107, 101, 116>>,    \* http://h/bitbucket
      <<104, 116, 116, 112, 58, 47, 47, 104, 47, 98, 105, 116, 98, 117, 99, 107, 101, 116, 47, 114, 101, 115, 116, 47, 97, 112, 105, 47, 49, 46, 48>>,    \* http://h/bitbucket/rest/api/1.0
      <<104, 116, 116, 112, 58, 47, 47, 104, 47, 98, 105, 116, 98, 117, 99, 107, 101, 116, 47, 114, 101, 115, 116, 47, 97, 112, 105, 47, 49, 46, 48, 47>>,    \* http://h/bitbucket/rest/api/1.0/
      <<104, 116, 116, 112, 58, 47, 47, 104, 47, 114, 101, 115, 116, 47, 97, 112, 105, 47, 49, 46, 48, 47, 114, 101, 115, 116, 47, 97, 112, 105, 47, 49, 46, 48>>,    \* http://h/rest/api/1.0/rest/api/1.0
      <<104, 116, 116, 112, 58, 47, 47, 104, 47, 114, 101, 115, 116, 47, 97, 112, 105, 47, 49, 46, 48, 48>>,    \* http://h/rest/api/1.00
      <<104, 116, 116, 112, 58, 47, 47, 104, 47, 114, 101, 115, 116, 47, 97, 112, 105, 47, 49, 46, 48, 47, 47>>,    \* http://h/rest/api/1.0//
      <<104, 116, 116, 112, 58, 47, 47, 104, 47, 82, 69, 83, 84, 47, 65, 80, 73, 47, 49, 46, 48, 47>>,    \* http://h/REST/API/1.0/
      <<104, 116, 116, 112, 58, 47, 47, 104, 47, 120, 114, 101, 115, 116, 47, 97, 112, 105, 47, 49, 46, 48>>,    \* http://h/xrest/api/1.0
      <<104, 116, 116, 112, 58, 47, 47, 104, 47, 120, 114, 101, 115, 116, 47, 97, 112, 105, 47, 49, 46, 48, 47>>,    \* http://h/xrest/api/1.0/
      <<104, 116, 116, 112, 58, 47, 47, 104, 47, 114, 101, 115, 116, 47, 97, 112, 105, 47, 49, 46, 48, 37, 50, 70>>,    \* http://h/rest/api/1.0%2F
      <<104, 116, 116, 112, 58, 47, 47, 104, 47, 114, 101, 115, 116, 47, 97, 112, 105, 47, 49, 37, 50, 69, 48>>,    \* http://h/rest/api/1%2E0
      <<104, 116, 116, 112, 58, 47, 47, 104, 47, 114, 101, 115, 116, 37, 50, 70, 97, 112, 105, 47, 49, 46, 48>>,    \* http://h/rest%2Fapi/1.0
      <<104, 116, 116, 112, 58, 47, 47, 104, 47, 97, 37, 50, 70, 98>>,    \* http://h/a%2Fb
      <<104, 116, 116, 112, 58, 47, 47, 104, 47, 97, 32, 98>>,    \* http://h/a b
      <<104, 116, 116, 112, 58, 47, 47, 104, 47, 97, 37, 51, 70, 98, 47>>,    \* http://h/a%3Fb/
      <<104, 116, 116, 112, 58, 47, 47, 104, 47, 114, 101, 115, 116, 47, 97, 112, 105, 47, 49, 46, 48, 63, 120, 61, 49>>,    \* http://h/rest/api/1.0?x=1
      <<104, 116, 116, 112, 58, 47, 47, 104, 47, 114, 101, 115, 116, 47, 97, 112, 105, 47, 49, 46, 48, 47, 63, 120, 61, 49>>,    \* http://h/rest/api/1.0/?x=1
      <<104, 116, 116, 112, 58, 47, 47, 104, 47, 120, 63, 114, 101, 115, 116, 47, 97, 112, 105, 47, 49, 46, 48, 47>>,    \* http://h/x?rest/api/1.0/
      <<104, 116, 116, 112, 58, 47, 47, 104, 47, 114, 101, 115, 116, 47, 97, 112, 105, 47, 49, 46, 48, 35, 102>>,    \* http://h/rest/api/1.0#f
      <<104, 116, 116, 112, 58, 47, 47, 104, 47, 120, 35, 47, 114, 101, 115, 116, 47, 97, 112, 105, 47, 49, 46, 48, 47>>,    \* http://h/x#/rest/api/1.0/
      <<72, 84, 84, 80, 58, 47, 47, 104, 47, 114, 101, 115, 116, 47, 97, 112, 105, 47, 49, 46, 48>>,    \* HTTP://h/rest/api/1.0
      <<47, 47, 104, 47, 114, 101, 115, 116, 47, 97, 112, 105, 47, 49, 46, 48>>,    \* //h/rest/api/1.0
      <<47, 114, 101, 115, 116, 47, 97, 112, 105, 47, 49, 46, 48>>,    \* /rest/api/1.0
      <<47, 114, 101, 115, 116, 47, 97, 112, 105, 47, 49, 46, 48, 47>>,    \* /rest/api/1.0/
      <<114, 101, 115, 116, 47, 97, 112, 105, 47, 49, 46, 48>>,    \* rest/api/1.0
      <<114, 101, 115, 116, 47, 97, 112, 105, 47, 49, 46, 48, 47>>,    \* rest/api/1.0/
      <<104, 47, 120>>,    \* h/x
      <<49, 46, 48>>,    \* 1.0
      <<109, 97, 105, 108, 116, 111, 58, 120>>,    \* mailto:x
      <<104, 116, 116, 112, 58, 114, 101, 115, 116, 47, 97, 112, 105, 47, 49, 46, 48>>,    \* http:rest/api/1.0
      <<104, 116, 116, 112, 58, 47, 47, 104, 47, 97, 37, 122, 122>>,    \* http://h/a%zz
      <<104, 116, 116, 112, 58, 47, 47, 104, 47, 97, 37, 50>>,    \* http://h/a%2
      <<58, 98, 97, 100>>,    \* :bad
      <<97, 58, 98, 47, 99>>,    \* a:b/c
      <<120, 47, 97, 58, 98>>,    \* x/a:b
      <<97, 32, 98, 58, 99, 47, 100>>,    \* a b:c/d
      <<104, 116, 116, 112, 58, 47, 47, 104, 32, 104, 47>>,    \* http://h h/
      <<104, 116, 116, 112, 58, 47, 47, 104, 58, 120, 47>>,    \* http://h:x/
      <<104, 116, 116, 112, 58, 47, 47, 104, 47, 127>>,    \* http://h/<DEL>
      <<104, 116, 116, 112, 58, 47, 47, 104, 47, 120, 35, 37, 122, 122>> }    \* http://h/x#%zz

InitClient ==
    /\ \E baseURL \in BaseURLs : args = [baseURL |-> baseURL]
    /\ r = EmptyRequest
    /\ secretToken = <<>>
    /\ sent = Sent(<<>>, "none", "nil", <<>>)
    /\ op = "none"
    /\ ret = [err |-> NilErr, before |-> NoClient]
    /\ Idle
    /\ Offline

Made(name, baseURL, res) ==
    /\ op' = name
    /\ args' = [baseURL |-> baseURL]
    /\ client' = res.client
    /\ ret' = [err |-> res.err, before |-> client]
    /\ UNCHANGED <<r, secretToken, sent, log, handlers, heap, resp, requests, responses>>

\* client, err := bitbucket.NewServerClient(baseURL, http.DefaultClient)
CallNewServerClient ==
    /\ op = "none"
    /\ Made("NewServerClient", args.baseURL, NewServerClient(args.baseURL))

\* a second client is made from the base URL of the first:
\* bitbucket.NewServerClient(u.String(), nil) with u := client.BaseURL()
CallNewServerClientAgain ==
    /\ op = "NewServerClient"
    /\ ~IsErr(ret.err)
    /\ Made("NewServerClient again", String(client.baseURL),
            NewServerClient(String(client.baseURL)))

NextClient == CallNewServerClient \/ CallNewServerClientAgain

SpecClient == InitClient /\ [][NextClient]_vars

(***************************************************************************)
(* The API client: requests, Do, and UsersService.  requests holds the     *)
(* requests given to the HTTP client, in order; log holds what the HTTP    *)
(* client made of each: a transport error, or a response.                  *)
(***************************************************************************)
\* the indexes of the "/" of s, with 0 and Len(s) + 1 around them
Cuts(s) == {0, Len(s) + 1} \cup {i \in 1..Len(s) : s[i] = 47}

\* strings.Split(s, "/")
Segments(s) ==
    [k \in 1..(Cardinality(Cuts(s)) - 1) |->
        SubSeq(s, Nth(Cuts(s), k) + 1, Nth(Cuts(s), k + 1) - 1)]

LastSlash(s) == IF Contains(s, 47) THEN Nth(Cuts(s), Cardinality(Cuts(s)) - 1) ELSE 0

\* the loop of resolvePath over the segments from i on: "." is dropped, ".."
\* drops the last segment written, and any other segment is written after a
\* "/" unless it is the first
RECURSIVE RemoveDots(_, _, _, _)
RemoveDots(segs, i, dst, first) ==
    IF i > Len(segs) THEN dst
    ELSE IF segs[i] = <<46>> THEN RemoveDots(segs, i + 1, dst, FALSE)
    ELSE IF segs[i] = <<46, 46>>
    THEN IF LastSlash(Tail(dst)) = 0
         THEN RemoveDots(segs, i + 1, <<47>>, TRUE)
         ELSE RemoveDots(segs, i + 1, <<47>> \o SubSeq(Tail(dst), 1, LastSlash(Tail(dst)) - 1),
                         first)
    ELSE RemoveDots(segs, i + 1, (IF first THEN dst ELSE dst \o <<47>>) \o segs[i], FALSE)

\* the end of resolvePath: a "/" after a last "." or "..", and one "/" at
\* the start
Cleaned(full, dst) ==
    LET last == Segments(full)[Len(Segments(full))]
        out == IF last \in {<<46>>, <<46, 46>>} THEN dst \o <<47>> ELSE dst
    IN  IF Len(out) > 1 /\ out[2] = 47 THEN Tail(out) ELSE out

\* resolvePath(base, ref)
resolvePath(base, ref) ==
    LET full == IF ref = <<>> THEN base
                ELSE IF ref[1] # 47 THEN SubSeq(base, 1, LastSlash(base)) \o ref
                ELSE ref
    IN  IF full = <<>> THEN <<>>
        ELSE Cleaned(full, RemoveDots(Segments(full), 1, <<47>>, TRUE))

\* URL.ResolveReference(ref) for a base u
ResolveReference(u, ref) ==
    IF ref.Scheme # <<>> \/ ref.Host # <<>>
    THEN setPath([ref EXCEPT !.Scheme = IF ref.Scheme = <<>> THEN u.Scheme ELSE @],
                 resolvePath(EscapedPath(ref), <<>>)).url
    ELSE IF ref.Opaque # <<>>
    THEN [ref EXCEPT !.Scheme = u.Scheme, !.Host = <<>>, !.Path = <<>>]
    ELSE IF ref.Path = <<>> /\ u.Opaque # <<>>
    THEN [ref EXCEPT !.Scheme = u.Scheme, !.Opaque = u.Opaque, !.Host = <<>>,
                     !.Path = <<>>,
                     !.RawQuery = IF ~ref.ForceQuery /\ ref.RawQuery = <<>>
                                  THEN u.RawQuery ELSE @]
    ELSE setPath([ref EXCEPT !.Scheme = u.Scheme, !.Host = u.Host,
                             !.RawQuery = IF ref.Path = <<>> /\ ~ref.ForceQuery
                                             /\ ref.RawQuery = <<>>
                                          THEN u.RawQuery ELSE @,
                             !.Fragment = IF ref.Path = <<>> /\ ~ref.ForceQuery
                                             /\ ref.RawQuery = <<>> /\ ref.Fragment = <<>>
                                          THEN u.Fragment ELSE @],
                 resolvePath(EscapedPath(u), EscapedPath(ref))).url

NoHTTPRequest == [Method |-> "", URL |-> <<>>, UserAgent |-> ""]

\* Client.NewRequest(ctx, method, urlStr, nil): the URL is urlStr resolved
\* against the base URL of the client
ClientNewRequest(c, method, urlStr) ==
    IF IsErr(urlParse(urlStr).err)
    THEN [req |-> NoHTTPRequest, err |-> urlParse(urlStr).err]
    ELSE [req |-> [Method |-> method,
                   URL |-> String(ResolveReference(c.baseURL, urlParse(urlStr).url)),
                   UserAgent |-> c.UserAgent],
          err |-> NilErr]

\* &notPagedResponse, the address of the package-level paging record
notPagedAddr == 1

\* var notPagedResponse = pagedResponse{Size: 1, Limit: 1, IsLastPage: true}
notPagedResponse ==
    [Size |-> 1, Limit |-> 1, IsLastPage |-> TRUE, Start |-> 0, NextPageStart |-> 0]

NilResponse == [Response |-> NoResp, pagedResponse |-> 0]

\* mutant: a Response for a target that is no *pagedResponse gets a paging
\* record of its own, a copy of the package-level one
populatePageValues_Copy(v, hp) ==
    IF v.kind = "pagedResponse" THEN [pagedResponse |-> v.addr, heap |-> hp]
    ELSE [pagedResponse |-> Len(hp) + 1, heap |-> Append(hp, hp[notPagedAddr])]

\* Response.populatePageValues(v): the paging record the Response points
\* to, v itself when v is a *pagedResponse and the package-level record
\* when not; no record is made
populatePageValues(v, hp) ==
    IF v.kind = "pagedResponse" THEN [pagedResponse |-> v.addr, heap |-> hp]
    ELSE [pagedResponse |-> notPagedAddr, heap |-> hp]

\* newResponse(r, v)
newResponse(rsp, v, hp) ==
    [Response |-> rsp, pagedResponse |-> populatePageValues(v, hp).pagedResponse]

\* the string fields of User, by their JSON names: name, emailAddress,
\* displayName, slug, type
UserStrings ==
    { <<110, 97, 109, 101>>,
      <<101, 109, 97, 105, 108, 65, 100, 100, 114, 101, 115, 115>>,
      <<100, 105, 115, 112, 108, 97, 121, 78, 97, 109, 101>>,
      <<115, 108, 117, 103>>,
      <<116, 121, 112, 101>> }

\* whether a member of an object fits the field of User it names: a string
\* for the string fields, a whole number for id, a boolean for active, an
\* object for links; null fits every field
FitsUser(m) ==
    \/ m[2].t = "null"
    \/ /\ (\E f \in UserStrings : EqualFold(f, m[1])) => m[2].t = "str"
       /\ EqualFold(<<105, 100>>, m[1])
              => /\ m[2].t = "num"
                 /\ \A i \in 1..Len(m[2].s) :
                        IsDigit(m[2].s[i]) \/ (i = 1 /\ m[2].s[i] = 45)
       /\ EqualFold(<<97, 99, 116, 105, 118, 101>>, m[1]) => m[2].t \in {"true", "false"}
       /\ EqualFold(<<108, 105, 110, 107, 115>>, m[1]) => m[2].t = "obj"

\* the text a string field of the user ends with
UserText(items, f) ==
    LET at == {n \in 1..Len(items) : EqualFold(f, items[n][1]) /\ items[n][2].t = "str"}
    IN  IF at = {} THEN <<>> ELSE items[CHOOSE n \in at : \A m \in at : m <= n][2].s

NilUser == [isNil |-> TRUE, Slug |-> <<>>, Name |-> <<>>]

UserOf(items) ==
    [isNil |-> FALSE, Slug |-> UserText(items, <<115, 108, 117, 103>>),
     Name |-> UserText(items, <<110, 97, 109, 101>>)]

\* json.NewDecoder(resp.Body).Decode(user) on the first value p of the body
DecodeUser(data, p) ==
    IF SkipWs(data, 1) > Len(data)
    THEN [err |-> NewErr("EOF", <<>>), user |-> UserOf(<<>>)]
    ELSE IF ~p.ok
    THEN [err |-> NewErr(IF p.eof THEN "unexpected EOF" ELSE "invalid character", <<>>),
          user |-> UserOf(<<>>)]
    ELSE IF p.v.t = "null" THEN [err |-> NilErr, user |-> UserOf(<<>>)]
    ELSE IF p.v.t # "obj" \/ \E n \in 1..Len(p.v.items) : ~FitsUser(p.v.items[n])
    THEN [err |-> NewErr("json: cannot unmarshal", <<>>), user |-> UserOf(<<>>)]
    ELSE [err |-> NilErr, user |-> UserOf(p.v.items)]

\* the response the HTTP client returns for a request
Received(req, out) ==
    [StatusCode |-> out.StatusCode, Body |-> [data |-> out.data, pos |-> 0],
     Request |-> [Method |-> req.Method, URL |-> req.URL]]

\* the number a text of digits denotes
RECURSIVE Atoi(_)
Atoi(s) == IF s = <<>> THEN 0 ELSE 10 * Atoi(SubSeq(s, 1, Len(s) - 1)) + (s[Len(s)] - 48)

IsInt(val) == val.t = "num" /\ \A i \in 1..Len(val.s) : IsDigit(val.s[i])

\* the value an int field of a pagedResponse ends with: the last member
\* of that name that holds a whole number, and the old value without one
PageInt(items, f, old) ==
    LET at == {n \in 1..Len(items) : EqualFold(f, items[n][1]) /\ IsInt(items[n][2])}
    IN  IF at = {} THEN old ELSE Atoi(items[CHOOSE n \in at : \A m \in at : m <= n][2].s)

PageBool(items, f, old) ==
    LET at == {n \in 1..Len(items) :
                  EqualFold(f, items[n][1]) /\ items[n][2].t \in {"true", "false"}}
    IN  IF at = {} THEN old
        ELSE items[CHOOSE n \in at : \A m \in at : m <= n][2].t = "true"

\* json.NewDecoder(resp.Body).Decode(page) on the first value p of the
\* body: the paging fields of the page after it
DecodePage(page, p) ==
    IF ~p.ok \/ p.v.t # "obj" THEN page
    ELSE [Size |-> PageInt(p.v.items, <<115, 105, 122, 101>>, page.Size),
          Limit |-> PageInt(p.v.items, <<108, 105, 109, 105, 116>>, page.Limit),
          IsLastPage |-> PageBool(p.v.items,
                                  <<105, 115, 76, 97, 115, 116, 80, 97, 103, 101>>,
                                  page.IsLastPage),
          Start |-> PageInt(p.v.items, <<115, 116, 97, 114, 116>>, page.Start),
          NextPageStart |-> PageInt(p.v.items,
                                    <<110, 101, 120, 116, 80, 97, 103, 101, 83, 116, 97, 114, 116>>,
                                    page.NextPageStart)]

\* what Do returns and leaves: the Response made by newResponse, the error,
\* what was written to v, and the paging records
Done(rsp, v, hp, err, buf, user) ==
    [resp |-> newResponse(rsp, v, hp), err |-> err, buf |-> buf, user |-> user,
     heap |-> populatePageValues(v, hp).heap]

\* the end of Do for a response that passed CheckResponse: the body is
\* copied to v when v is a writer, and decoded into v when not; io.EOF from
\* the decoder is no error
Stored_v(rsp, v, out, hp) ==
    IF out.fail
    THEN Done(rsp, v, hp, NewErr("read error", <<>>), <<>>, NilUser)
    ELSE IF v.kind = "writer"
    THEN Done(Drained(rsp), v, hp, NilErr, out.data, NilUser)
    ELSE IF v.kind = "pagedResponse"
    THEN Done(Drained(rsp), v,
              [hp EXCEPT ![v.addr] = DecodePage(@, JValue(out.data, SkipWs(out.data, 1)))],
              IF JValue(out.data, SkipWs(out.data, 1)).ok \/ SkipWs(out.data, 1) > Len(out.data)
              THEN NilErr ELSE NewErr("invalid character", <<>>),
              <<>>, NilUser)
    ELSE Done(Drained(rsp), v, hp,
              IF DecodeUser(out.data, JValue(out.data, SkipWs(out.data, 1))).err.kind = "EOF"
              THEN NilErr
              ELSE DecodeUser(out.data, JValue(out.data, SkipWs(out.data, 1))).err,
              <<>>,
              DecodeUser(out.data, JValue(out.data, SkipWs(out.data, 1))).user)

\* Client.Do(req, v), given what the HTTP client made of the request
Do(req, v, out, hp) ==
    IF out.kind = "error"
    THEN [resp |-> NilResponse, err |-> NewErr(out.err, <<>>), buf |-> <<>>,
          user |-> NilUser, heap |-> hp]
    ELSE IF IsErr(CheckResponse(Received(req, out)).err)
    THEN Done(CheckResponse(Received(req, out)).resp, v, hp,
              CheckResponse(Received(req, out)).err, <<>>, NilUser)
    ELSE Stored_v(Received(req, out), v, out, hp)

whoamiPath ==
    <<47, 112, 108, 117, 103, 105, 110, 115, 47, 115, 101, 114, 118, 108, 101, 116, 47, 97, 112, 112, 108, 105, 110, 107, 115, 47, 119, 104, 111, 97, 109, 105>>
                                                 \* /plugins/servlet/applinks/whoami

usersPath == <<117, 115, 101, 114, 115, 47>>                      \* users/

\* the return of WhoAmI after Do
WhoAmI(d) ==
    IF IsErr(d.err) THEN [slug |-> <<>>, resp |-> d.resp, err |-> d.err]
    ELSE [slug |-> d.buf, resp |-> d.resp, err |-> NilErr]

\* what a function of UsersService does next: it sends a request, or it
\* returns
Sends(req) == [returns |-> FALSE, req |-> req, user |-> NilUser, resp |-> NilResponse,
               err |-> NilErr]

Returns(user, rsp, err) ==
    [returns |-> TRUE, req |-> NoHTTPRequest, user |-> user, resp |-> rsp, err |-> err]

\* Get up to its call of Do
Get(c, slug) ==
    IF IsErr(ClientNewRequest(c, "GET", usersPath \o slug).err)
    THEN Returns(NilUser, NilResponse, ClientNewRequest(c, "GET", usersPath \o slug).err)
    ELSE Sends(ClientNewRequest(c, "GET", usersPath \o slug).req)

\* the return of Get after Do
GetReturn(d) ==
    IF IsErr(d.err) THEN Returns(NilUser, d.resp, d.err) ELSE Returns(d.user, d.resp, NilErr)

\* mutant: the error of WhoAmI is not looked at
Myself_AlwaysGet(c, who) == Get(c, who.slug)

\* Myself after its call of WhoAmI
Myself(c, who) ==
    IF IsErr(who.err) THEN Returns(NilUser, who.resp, who.err) ELSE Get(c, who.slug)

\* the texts a server answers with
WireBodies ==
    {
      <<97, 100, 109, 105, 110>>,    \* admin
      <<>>,    \* (empty)
      <<97, 32, 98>>,    \* a b
      <<97, 37, 122, 122>>,    \* a%zz
      <<46, 46>>,    \* ..
      <<120, 63, 121>>,    \* x?y
      <<123, 34, 115, 108, 117, 103, 34, 58, 34, 97, 100, 109, 105, 110, 34, 44, 34, 110, 97, 109, 101, 34, 58, 34, 65, 100, 109, 105, 110, 34, 44, 34, 105, 100, 34, 58, 49, 125>>,    \* {"slug":"admin","name":"Admin","id":1}
      <<123, 34, 83, 76, 85, 71, 34, 58, 34, 97, 34, 44, 34, 105, 100, 34, 58, 34, 120, 34, 125>>,    \* {"SLUG":"a","id":"x"}
      <<123, 34, 115, 108, 117, 103, 34, 58, 49, 125>>,    \* {"slug":1}
      <<60, 104, 116, 109, 108, 62>>,    \* <html>
      <<123, 34, 101, 114, 114, 111, 114, 115, 34, 58, 91, 123, 34, 109, 101, 115, 115, 97, 103, 101, 34, 58, 34, 109, 34, 125, 93, 125>> }    \* {"errors":[{"message":"m"}]}

\* what the HTTP client makes of a request: an error of the transport or of
\* the context, or a response, whose body may fail to be read
Outcomes ==
    {[kind |-> "error", err |-> e, StatusCode |-> 0, data |-> <<>>, fail |-> FALSE] :
        e \in {"dial tcp", "context canceled"}}
    \cup {[kind |-> "response", err |-> "", StatusCode |-> c, data |-> d, fail |-> FALSE] :
             c \in {200, 204, 401, 404, 500}, d \in WireBodies}
    \cup {[kind |-> "response", err |-> "", StatusCode |-> 200,
           data |-> <<97, 100, 109, 105, 110>>, fail |-> TRUE]}

InitMyself ==
    /\ \E baseURL \in { <<104, 116, 116, 112, 58, 47, 47, 104>>,                \* http://h
                        <<104, 116, 116, 112, 58, 47, 47, 104, 47, 98, 98, 47>> } : \* http://h/bb/
           client = NewServerClient(baseURL).client
    /\ requests = NoRequests
    /\ responses = NoResponses
    /\ log = NoLog
    /\ r = EmptyRequest
    /\ secretToken = <<>>
    /\ sent = Sent(<<>>, "none", "nil", <<>>)
    /\ op = "none"
    /\ args = [slug |-> <<>>]
    /\ ret = Returns(NilUser, NilResponse, NilErr)
    /\ handlers = NoHandlers
    /\ heap = <<notPagedResponse>>
    /\ resp = NoResp

\* what a step of Myself leaves: a request sent from the function named, or
\* the return of Myself
Steps(from, next) ==
    /\ requests' = IF next.returns THEN requests ELSE Append(requests, next.req)
    /\ op' = IF next.returns THEN "Myself" ELSE from
    /\ ret' = next
    /\ UNCHANGED <<r, secretToken, sent, handlers, heap, client, responses>>

\* user, _, err := client.Users.Myself(ctx), up to the Do of WhoAmI
CallMyself ==
    /\ op = "none"
    /\ Steps("WhoAmI", Sends(ClientNewRequest(client, "GET", whoamiPath).req))
    /\ UNCHANGED <<log, args, resp>>

\* the Do of WhoAmI returns, WhoAmI returns, and Myself goes on
WhoAmIReturns ==
    /\ op = "WhoAmI"
    /\ \E out \in Outcomes :
           /\ log' = Append(log, out)
           /\ resp' = Do(requests[1], [kind |-> "writer", addr |-> 0], out, heap).resp.Response
           /\ args' = [slug |-> WhoAmI(Do(requests[1], [kind |-> "writer", addr |-> 0],
                                          out, heap)).slug]
           /\ Steps("Get", Myself(client, WhoAmI(Do(requests[1],
                                                    [kind |-> "writer", addr |-> 0],
                                                    out, heap))))

\* the Do of Get returns, and Get and Myself return
GetReturns ==
    /\ op = "Get"
    /\ \E out \in Outcomes :
           /\ log' = Append(log, out)
           /\ resp' = Do(requests[2], [kind |-> "user", addr |-> 0], out, heap).resp.Response
           /\ Steps("Get", GetReturn(Do(requests[2], [kind |-> "user", addr |-> 0],
                                        out, heap)))
    /\ UNCHANGED args

NextMyself == CallMyself \/ WhoAmIReturns \/ GetReturns

SpecMyself == InitMyself /\ [][NextMyself]_vars

(***************************************************************************)
(* The paging record of a Response.  heap holds the pagedResponse values   *)
(* of the program by address: the package-level notPagedResponse at        *)
(* notPagedAddr, and after it the pages the List functions make.           *)
(* responses holds the Responses Do has returned, each with the client and *)
(* the goroutine of the call.                                              *)
(***************************************************************************)
MaxRequests == 3

MaxWrites == 1

Goroutines == {1, 2}

PagingFields == {"Size", "Limit", "IsLastPage", "Start", "NextPageStart"}

\* page := &pagedResponse{Values: &users}
NewPage == [Size |-> 0, Limit |-> 0, IsLastPage |-> FALSE, Start |-> 0, NextPageStart |-> 0]

\* the answers of a server to a request for a user, for the name of the
\* user, and for a page
Answer(status, data) ==
    [kind |-> "response", err |-> "", StatusCode |-> status, data |-> data, fail |-> FALSE]

NoAnswer ==
    [kind |-> "error", err |-> "dial tcp", StatusCode |-> 0, data |-> <<>>, fail |-> FALSE]

UserAnswers ==
    { Answer(404, <<>>),
      Answer(200, <<123, 34, 115, 108, 117, 103, 34, 58, 34, 97, 100, 109, 105, 110, 34, 125>>) }      \* {"slug":"admin"}

WhoAmIAnswers == { NoAnswer, Answer(200, <<97, 100, 109, 105, 110>>) }       \* admin

PageAnswers ==
    { Answer(200, <<123, 34, 115, 105, 122, 101, 34, 58, 50, 44, 34, 108, 105, 109, 105, 116, 34, 58, 53, 44, 34, 105, 115, 76, 97, 115, 116, 80, 97, 103, 101, 34, 58, 102, 97, 108, 115, 101, 44, 34, 110, 101, 120, 116, 80, 97, 103, 101, 83, 116, 97, 114, 116, 34, 58, 50, 125>>) }
      \* {"size":2,"limit":5,"isLastPage":false,"nextPageStart":2}

\* no write yet to a paging field through a Response that is not paged
NoWrite == [through |-> 0, value |-> 0, held |-> 0]

\* the clients of the two goroutines, one made with http://h and one with
\* http://i
PagingClients ==
    << NewServerClient(<<104, 116, 116, 112, 58, 47, 47, 104>>).client,
       NewServerClient(<<104, 116, 116, 112, 58, 47, 47, 105>>).client >>

\* the requests that Get(ctx, "admin"), WhoAmI(ctx) and List(ctx, nil) build
\* with each of these clients, which do not change once made
GetRequests == [g \in Goroutines |-> Get(PagingClients[g], <<97, 100, 109, 105, 110>>).req]

WhoAmIRequests ==
    [g \in Goroutines |-> ClientNewRequest(PagingClients[g], "GET", whoamiPath).req]

ListRequests ==
    [g \in Goroutines |->
        ClientNewRequest(PagingClients[g], "GET", <<117, 115, 101, 114, 115>>).req]

InitPaging ==
    /\ client = PagingClients
    /\ requests = NoRequests
    /\ responses = NoResponses
    /\ log = [writes |-> 0, last |-> [f \in PagingFields |-> NoWrite]]
    /\ heap = <<notPagedResponse>>
    /\ r = EmptyRequest
    /\ secretToken = <<>>
    /\ sent = Sent(<<>>, "none", "nil", <<>>)
    /\ op = "none"
    /\ args = [client |-> 0, goroutine |-> 0]
    /\ ret = [err |-> NilErr]
    /\ handlers = NoHandlers
    /\ resp = NoResp

\* a call of Do from a function of a service, in goroutine g with the
\* client of that goroutine: the request is sent, and the Response, when
\* there is one, is what the caller holds from then on
Called(name, g, req, v, d) ==
    /\ Len(requests) < MaxRequests
    /\ requests' = Append(requests, req)
    /\ responses' = IF d.resp = NilResponse THEN responses
                    ELSE Append(responses,
                                [Response |-> d.resp.Response,
                                 pagedResponse |-> d.resp.pagedResponse,
                                 paged |-> v.kind = "pagedResponse",
                                 client |-> client[g].baseURL.Host, goroutine |-> g])
    /\ heap' = d.heap
    /\ op' = name
    /\ args' = [client |-> g, goroutine |-> g]
    /\ ret' = [err |-> d.err]
    /\ UNCHANGED <<r, secretToken, sent, log, handlers, resp, client>>

\* goroutine 1 calls Get and List with its client, goroutine 2 calls WhoAmI
\* with its own
\* client.Users.Get(ctx, "admin"): Do with a *User
CallGet ==
    \E out \in UserAnswers :
        Called("Get", 1, GetRequests[1], [kind |-> "user", addr |-> 0],
               Do(GetRequests[1], [kind |-> "user", addr |-> 0], out, heap))

\* client.Users.WhoAmI(ctx): Do with a *bytes.Buffer
CallWhoAmI ==
    \E out \in WhoAmIAnswers :
        Called("WhoAmI", 2, WhoAmIRequests[2], [kind |-> "writer", addr |-> 0],
               Do(WhoAmIRequests[2], [kind |-> "writer", addr |-> 0], out, heap))

\* client.Users.List(ctx, nil): Do with a *pagedResponse the function made
CallList ==
    \E out \in PageAnswers :
        Called("List", 1, ListRequests[1],
               [kind |-> "pagedResponse", addr |-> Len(heap) + 1],
               Do(ListRequests[1], [kind |-> "pagedResponse", addr |-> Len(heap) + 1],
                  out, Append(heap, NewPage)))

\* a caller assigns to a paging field of a Response it holds, as in
\* resp.Size = 5: the field is a promoted field of the record pointed to.
\* log keeps, for each field, the last write through a Response that is not
\* paged: the Response, the value, and the Responses held then
SetField ==
    /\ log.writes < MaxWrites
    /\ \E i \in DOMAIN responses, f \in PagingFields :
           /\ heap' = [heap EXCEPT ![responses[i].pagedResponse][f] =
                                       IF f = "IsLastPage" THEN FALSE ELSE 5]
           /\ log' = [writes |-> log.writes + 1,
                      last |-> IF responses[i].paged THEN log.last
                               ELSE [log.last EXCEPT ![f] =
                                        [through |-> i,
                                         value |-> IF f = "IsLastPage" THEN FALSE ELSE 5,
                                         held |-> Len(responses)]]]
    /\ UNCHANGED <<r, secretToken, sent, op, args, ret, handlers, resp, client, requests,
                   responses>>

NextPaging == CallGet \/ CallWhoAmI \/ CallList \/ SetField

SpecPaging == InitPaging /\ [][NextPaging]_vars

(***************************************************************************)
(* Properties                                                              *)
(***************************************************************************)
JSONType == "application/json"

FormType == "application/x-www-form-urlencoded"

ValidationDone == op = "ValidatePayload"

Accepted == ~IsErr(ret.err) /\ ~ret.payload.isNil

Rejected == IsErr(ret.err) /\ ret.payload.isNil

\* the header is "<algo>=<hex>" for one of the three algorithms, and <hex>
\* is the hex text, in either case, of the HMAC of message under key
SignedBy(sig, message, key) ==
    \E h \in HashFuncs :
        LET pre == Prefix(h) \o <<61>>
            hex == SubSeq(sig, Len(pre) + 1, Len(sig))
        IN  /\ Len(sig) >= Len(pre)
            /\ SubSeq(sig, 1, Len(pre)) = pre
            /\ [j \in 1..Len(hex) |-> ToLower(hex[j])]
                   = EncodeToString(genMAC(message, key, h))

\* the body was read and, for a form, parsed
Extracted ==
    /\ Supported(r.Header.ContentType)
    /\ ~r.Body.fail
    /\ r.Header.ContentType = FormType => ~IsErr(ParseQuery(r.Body.data).err)

\* the parsed form has a field named payload
HasPayloadField ==
    \E i \in 1..Len(ParseQuery(r.Body.data).values) :
        ParseQuery(r.Body.data).values[i][1] = payloadFormParam

\* C1: fail closed.  Under a non-empty secret ValidatePayload returns either
\* a payload and no error or an error and a nil payload, and it returns a
\* payload only if the X-Hub-Signature header parses and its digest is the
\* HMAC, under the secret and the algorithm the header names, of the body.
C1_FailClosed ==
    (ValidationDone /\ Len(secretToken) > 0) =>
        /\ Accepted \/ Rejected
        /\ Accepted => SignedBy(r.Header.Signature, r.Body.data, secretToken)

\* a request whose digest has one bit inverted was rejected
C1_Witness ==
    /\ ValidationDone
    /\ secretToken = Key1
    /\ r.Header.Signature = FlippedHeader("sha1", r.Body.data, Key1, 1, 0)
    /\ Rejected
    /\ ret.err.kind = "payload signature check failed"

\* C2 as claimed: under a non-empty secret a form-url-encoded request whose
\* header is the HMAC of the decoded payload field value is accepted.
C2_SignedPayloadAccepted ==
    (/\ ValidationDone
     /\ Len(secretToken) > 0
     /\ r.Header.ContentType = FormType
     /\ sent.encoding = "form"
     /\ ~r.Body.fail
     /\ \E h \in HashFuncs :
            r.Header.Signature = SignatureHeader(h, sent.payload, secretToken))
    => Accepted

\* C2 amended: under a non-empty secret the signature is checked over the
\* raw request body.  A request whose body was extracted is accepted exactly
\* if its header is the HMAC of the raw body; the payload returned is then
\* the extracted one, which is the raw body only for application/json.
C2_SignedBodyAccepted ==
    (ValidationDone /\ Len(secretToken) > 0 /\ Extracted) =>
        /\ Accepted <=> SignedBy(r.Header.Signature, r.Body.data, secretToken)
        /\ Accepted /\ sent.encoding = "form" /\ r.Header.ContentType = FormType
               => ret.payload.bytes = sent.payload

\* a form request signed over its raw body was accepted, and the payload
\* returned is not the bytes that were signed
C2_Witness ==
    /\ ValidationDone
    /\ Len(secretToken) > 0
    /\ r.Header.ContentType = FormType
    /\ sent.encoding = "form"
    /\ \E h \in HashFuncs :
           r.Header.Signature = SignatureHeader(h, r.Body.data, secretToken)
    /\ Accepted
    /\ ret.payload.bytes = sent.payload
    /\ ret.payload.bytes # r.Body.data

\* C3: for every secret, payload and algorithm, ValidateSignature of the
\* header "<algo>=<hex of HMAC-algo(payload, secret)>" returns nil.
C3_FreshVerifies ==
    (/\ op = "ValidateSignature"
     /\ \E h \in HashFuncs :
            args.signature = SignatureHeader(h, args.payload, secretToken))
    => ~IsErr(ret.err)

\* a fresh sha512 signature under the longer secret was verified
C3_Witness ==
    /\ op = "ValidateSignature"
    /\ sent.encoding = "fresh"
    /\ sent.hashFunc = "sha512"
    /\ secretToken = Key2
    /\ args.signature = SignatureHeader("sha512", args.payload, Key2)
    /\ ~IsErr(ret.err)

\* C4: a valid header with any single bit of its digest inverted makes
\* ValidateSignature fail with "payload signature check failed".
C4_FlippedFails ==
    (/\ op = "ValidateSignature"
     /\ sent.encoding = "flipped"
     /\ args.signature = FlippedHeader(sent.hashFunc, args.payload, secretToken,
                                       sent.flip[1], sent.flip[2]))
    => ret.err.kind = "payload signature check failed"

\* the highest bit of the last byte of a sha512 digest was inverted
C4_Witness ==
    /\ op = "ValidateSignature"
    /\ sent.encoding = "flipped"
    /\ sent.hashFunc = "sha512"
    /\ sent.flip = <<64, 7>>
    /\ ret.err.kind = "payload signature check failed"

\* the header up to its first "=", and after it
BeforeEq(sig) == SubSeq(sig, 1, Least({i \in 1..Len(sig) : sig[i] = 61}) - 1)

AfterEq(sig) == SubSeq(sig, Least({i \in 1..Len(sig) : sig[i] = 61}) + 1, Len(sig))

HasEq(sig) == \E i \in 1..Len(sig) : sig[i] = 61

ValidHex(t) == Len(t) % 2 = 0 /\ \A i \in 1..Len(t) : IsHexChar(t[i])

KnownPrefix(t) == t \in {sha1Prefix, sha256Prefix, sha512Prefix}

\* C5: ValidateSignature gives every failing header one error kind.  It is
\* "missing signature" exactly for the empty header; a malformed-signature
\* error ("error parsing signature", "error decoding signature") only for a
\* header with no "=" or with text after the first "=" that is no valid hex,
\* and always for a header with no "=" and for one with a recognized
\* algorithm and invalid hex; "unknown hash type prefix" exactly when the
\* text before the first "=" is none of sha1, sha256, sha512; "payload
\* signature check failed" exactly when the header parses and its digest is
\* not the HMAC.
C5_ErrorKinds ==
    op = "ValidateSignature" =>
        LET sig == args.signature
            kind == ret.err.kind
        IN  /\ kind \in {"nil", "missing signature", "error parsing signature",
                         "unknown hash type prefix", "error decoding signature",
                         "payload signature check failed"}
            /\ kind = "missing signature" <=> sig = <<>>
            /\ kind = "error parsing signature" <=> (sig # <<>> /\ ~HasEq(sig))
            /\ kind = "unknown hash type prefix"
                   <=> (HasEq(sig) /\ ~KnownPrefix(BeforeEq(sig)))
            /\ kind = "unknown hash type prefix" => ret.err.arg = BeforeEq(sig)
            /\ kind = "error decoding signature"
                   => (HasEq(sig) /\ ~ValidHex(AfterEq(sig)))
            /\ (HasEq(sig) /\ KnownPrefix(BeforeEq(sig)) /\ ~ValidHex(AfterEq(sig)))
                   => kind = "error decoding signature"
            /\ kind = "payload signature check failed"
                   <=> (/\ HasEq(sig) /\ KnownPrefix(BeforeEq(sig))
                        /\ ValidHex(AfterEq(sig))
                        /\ ~SignedBy(sig, args.payload, secretToken))

\* md5=deadbeef was reported as an unknown algorithm
C5_Witness ==
    /\ op = "ValidateSignature"
    /\ args.signature = md5Header
    /\ ret.err.kind = "unknown hash type prefix"
    /\ ret.err.arg = <<109, 100, 53>>

\* C6: with a nil or empty secret ValidatePayload verifies no signature: a
\* request whose body was extracted is accepted with the extracted payload
\* whatever its X-Hub-Signature header is.
C6_NoVerification ==
    (ValidationDone /\ secretToken = <<>> /\ Extracted) =>
        /\ Accepted
        /\ ret.payload.bytes = ExtractPayload(r.Header.ContentType, r.Body.data).payload

\* a request with the header md5=deadbeef was accepted under the empty secret
C6_Witness ==
    /\ ValidationDone
    /\ secretToken = <<>>
    /\ r.Header.Signature = md5Header
    /\ Accepted

\* C7: for Content-Type application/json a successful ValidatePayload
\* returns the bytes of the request body.
C7_JSONUnchanged ==
    (ValidationDone /\ r.Header.ContentType = JSONType /\ ~IsErr(ret.err)) =>
        /\ ~ret.payload.isNil
        /\ ret.payload.bytes = r.Body.data

\* a signed JSON request whose body has a "+" was accepted as it is
C7_Witness ==
    /\ ValidationDone
    /\ r.Header.ContentType = JSONType
    /\ Len(secretToken) > 0
    /\ \E i \in 1..Len(r.Body.data) : r.Body.data[i] = 43
    /\ Accepted
    /\ ret.payload.bytes = r.Body.data

\* C8: for every payload P a form-url-encoded request with the body
\* payload=<url-encoded P>, under the empty secret, returns exactly P.
C8_FormRoundTrip ==
    (/\ ValidationDone
     /\ r.Header.ContentType = FormType
     /\ r.Body.data = FormBody(sent.payload)
     /\ ~r.Body.fail
     /\ secretToken = <<>>)
    => (Accepted /\ ret.payload.bytes = sent.payload)

\* the payload "% " came back from payload=%25+
C8_Witness ==
    /\ ValidationDone
    /\ r.Header.ContentType = FormType
    /\ sent.payload = <<37, 32>>
    /\ r.Body.data = payloadFormParam \o <<61, 37, 50, 53, 43>>
    /\ secretToken = <<>>
    /\ ret.payload.bytes = <<37, 32>>

\* C9: a form-url-encoded body that parses and has no payload field is no
\* extraction failure: under the empty secret ValidatePayload returns an
\* empty payload and no error, and ParseWebHook of a recognized event key
\* then returns the decode error of the empty input and no event.
C9_MissingFieldDecodes ==
    (/\ r.Header.ContentType = FormType
     /\ secretToken = <<>>
     /\ Extracted
     /\ ~HasPayloadField)
    => /\ ValidationDone => (Accepted /\ ret.payload.bytes = <<>>)
       /\ (op = "ParseWebHook" /\ WebHookType(r) \in EventKeys)
              => /\ ret.err.kind = "unexpected end of JSON input"
                 /\ ret.event = NilEvent

\* the body x=<escaped payload> went through ValidatePayload and failed in
\* ParseWebHook
C9_Witness ==
    /\ op = "ParseWebHook"
    /\ r.Header.ContentType = FormType
    /\ sent.encoding = "other"
    /\ Len(sent.payload) > 0
    /\ ~HasPayloadField
    /\ ret.payload.bytes = <<>>
    /\ ret.err.kind = "unexpected end of JSON input"

\* C10: every Content-Type other than application/json and
\* application/x-www-form-urlencoded makes ValidatePayload return the
\* unsupported-content-type error naming that value, and no payload.
C10_ExactContentType ==
    (ValidationDone /\ r.Header.ContentType \notin {JSONType, FormType}) =>
        /\ ret.err.kind = "webhook request has unsupported Content-Type"
        /\ ret.err.arg = r.Header.ContentType
        /\ ret.payload.isNil

\* application/json with a charset parameter was refused
C10_Witness ==
    /\ ValidationDone
    /\ r.Header.ContentType = "application/json; charset=utf-8"
    /\ ret.err.kind = "webhook request has unsupported Content-Type"
    /\ ret.err.arg = "application/json; charset=utf-8"
    /\ ret.payload.isNil

\* the lines of log that are calls of the function
CallsOf(name) == {i \in 1..Len(log) : log[i].op = name}

\* C11 as claimed: every call of ValidatePayload, whatever it returns, reads
\* the body stream once, and the stream is at its end when the call returns.
C11_ConsumedOnce ==
    \A i \in CallsOf("ValidatePayload") :
        log[i].reads = 1 /\ log[i].pos = Len(r.Body.data)

\* C11 amended: no call of ValidatePayload reads the body stream more than
\* once.  A call on a request with a supported Content-Type reads it exactly
\* once, and to its end unless the stream reports an error; a call on a
\* request with any other Content-Type does not read it and leaves the
\* stream where it was.
C11_ConsumedOnceIfSupported ==
    \A i \in CallsOf("ValidatePayload") :
        IF Supported(r.Header.ContentType)
        THEN /\ log[i].reads = 1
             /\ ~IsErr(log[i].result.err) => log[i].pos = Len(r.Body.data)
             /\ ~r.Body.fail => log[i].pos = Len(r.Body.data)
        ELSE /\ log[i].reads = 0
             /\ log[i].pos = log[i].at
             /\ log[i].result.err.kind = "webhook request has unsupported Content-Type"

\* a text/plain request with a body of two bytes was refused twice, and its
\* body is still unread
C11_Witness ==
    /\ r.Header.ContentType = "text/plain"
    /\ Len(r.Body.data) = 2
    /\ Cardinality(CallsOf("ValidatePayload")) = 2
    /\ \A i \in CallsOf("ValidatePayload") :
           /\ log[i].reads = 0
           /\ IsErr(log[i].result.err)
    /\ r.Body.pos = 0
    /\ r.Body.reads = 0

\* the calls of ValidatePayload made with the body stream at its start: on
\* the request as it came, or after the body was replayed
FromStart == {i \in CallsOf("ValidatePayload") : log[i].at = 0}

\* C12: any two calls of ValidatePayload on the request with its body at the
\* start return the same thing, the same payload or the same kind of error,
\* whatever was called in between.
C12_SameOutcome ==
    \A i \in FromStart : \A j \in FromStart :
        /\ log[i].result.payload = log[j].result.payload
        /\ log[i].result.err.kind = log[j].result.err.kind

\* a signed form request was accepted, its event parsed, its body replayed,
\* and it was accepted again with the same payload
C12_Witness ==
    /\ Len(log) = 4
    /\ log[1].op = "ValidatePayload" /\ log[2].op = "ParseWebHook"
    /\ log[3].op = "Replay" /\ log[4].op = "ValidatePayload"
    /\ r.Header.ContentType = FormType
    /\ secretToken = Key1
    /\ ~IsErr(log[1].result.err)
    /\ log[1].result.payload = Bytes(<<97, 43>>)
    /\ log[4].result = log[1].result
    /\ r.Body.reads = 2

\* the lines before line i that are calls of ValidatePayload or replays
Movers(i) == {j \in 1..(i - 1) : log[j].op \in {"ValidatePayload", "Replay"}}

\* the request the call of line i is made on when no accessor was ever
\* called: the body stream is where the last ValidatePayload or replay before
\* it left it, at the start when there is none
RequestAt(i) ==
    [r EXCEPT !.Body.reads = 0,
              !.Body.pos = IF Movers(i) = {} THEN 0
                           ELSE log[CHOOSE j \in Movers(i) : \A k \in Movers(i) : k <= j].pos]

\* C18: every call of WebHookType returns the X-Event-Key header and every
\* call of RequestID the X-Request-Id header ("" for a header that is
\* absent), whatever the request is and whenever it is called; neither reads
\* the body stream or moves it; and every call of ValidatePayload returns
\* what it returns on the same request when no accessor is called at all.
C18_Accessors ==
    /\ \A i \in CallsOf("WebHookType") :
           /\ log[i].result = r.Header.EventKey
           /\ log[i].reads = 0 /\ log[i].pos = log[i].at
    /\ \A i \in CallsOf("RequestID") :
           /\ log[i].result = r.Header.RequestID
           /\ log[i].reads = 0 /\ log[i].pos = log[i].at
    /\ \A i \in CallsOf("ValidatePayload") :
           /\ log[i].result.payload = ValidatePayload(RequestAt(i), secretToken).payload
           /\ log[i].result.err.kind = ValidatePayload(RequestAt(i), secretToken).err.kind

\* on a request without event key: WebHookType, then a ValidatePayload that
\* succeeded, then RequestID and WebHookType again
C18_Witness ==
    /\ Len(log) = 4
    /\ log[1].op = "WebHookType" /\ log[2].op = "ValidatePayload"
    /\ log[3].op = "RequestID" /\ log[4].op = "WebHookType"
    /\ r.Header.EventKey = "" /\ r.Header.RequestID = "id-2"
    /\ Len(r.Body.data) > 0
    /\ ~IsErr(log[2].result.err)
    /\ log[2].result.payload = Bytes(sent.payload)
    /\ log[1].result = "" /\ log[3].result = "id-2" /\ log[4].result = ""
    /\ log[4].at = Len(r.Body.data)

\* a payload is structurally valid for a record type when it is a JSON object
\* that json.Unmarshal decodes into the type without an error
ValidFor(type, payload) ==
    /\ JParse(payload).ok
    /\ JParse(payload).v.t = "obj"
    /\ ~IsErr(Unmarshal(payload, type).err)

ParseDone == op = "ParseWebHook"

\* C13: ParseWebHook is total over the thirteen event keys.  For each of
\* them a payload that is structurally valid for the record the key is
\* documented to have yields a record and no error, of a type no other key
\* yields; every other key yields the unknown-event-key error naming the
\* key, and no record.
C13_Total ==
    ParseDone =>
        /\ Cardinality(EventKeys) = 13
        /\ (/\ args.eventKey \in EventKeys
            /\ ValidFor(DocumentedType(args.eventKey), args.payload))
           => /\ ~IsErr(ret.err)
              /\ ret.event # NilEvent
              /\ \A k \in EventKeys \ {args.eventKey} : EventType(k) # ret.event.type
        /\ args.eventKey \notin EventKeys
           => /\ ret.err.kind = "unknown X-Event-Key in message"
              /\ ret.err.arg = args.eventKey
              /\ ret.event = NilEvent

\* the index of the field with the Go name in the record's type, 0 when the
\* type has no such field
FieldNamed(type, go) ==
    LET at == {i \in 1..Len(FieldsOf(type)) : FieldsOf(type)[i].go = go}
    IN  IF at = {} THEN 0 ELSE Least(at)

\* the record has the field and the field holds the value
Holds(event, go, v) ==
    /\ event # NilEvent
    /\ FieldNamed(event.type, go) # 0
    /\ event.fields[FieldNamed(event.type, go)] = v

\* the value of the member of a payload with the name, when it is a list
ListsOf(payload, name) ==
    {JParse(payload).v.items[m][2] :
        m \in {n \in 1..Len(JParse(payload).v.items) :
                  /\ JParse(payload).v.items[n][1] = name
                  /\ JParse(payload).v.items[n][2].t = "arr"}}

\* C14: a payload that ParseWebHook decodes is decoded into the record type
\* documented for its event key; for pr:reviewer:updated that is the
\* reviewers-updated record, and the lists a payload carries as
\* addedReviewers and removedReviewers are held by the record's
\* AddedReviewers and RemovedReviewers fields.
C14_DocumentedShape ==
    (ParseDone /\ args.eventKey \in EventKeys /\ ~IsErr(ret.err)) =>
        /\ ret.event.type = DocumentedType(args.eventKey)
        /\ (args.eventKey = "pr:reviewer:updated" /\ JParse(args.payload).v.t = "obj")
           => /\ \A v \in ListsOf(args.payload,
                      <<97, 100, 100, 101, 100, 82, 101, 118, 105, 101, 119, 101, 114, 115>>) :
                      Holds(ret.event, "AddedReviewers", v)
              /\ \A v \in ListsOf(args.payload,
                      <<114, 101, 109, 111, 118, 101, 100, 82, 101, 118, 105, 101, 119, 101, 114, 115>>) :
                      Holds(ret.event, "RemovedReviewers", v)

\* C15: for a recognized event key and a payload that is structurally
\* invalid for the record the key is documented to have (truncated or empty
\* input, a value that is no object, a member of the wrong JSON type for its
\* field), ParseWebHook returns a decode error and a nil event.
C15_DecodeError ==
    (/\ ParseDone
     /\ args.eventKey \in EventKeys
     /\ IsErr(Unmarshal(args.payload, DocumentedType(args.eventKey)).err))
    => /\ ret.err.kind \in {"unexpected end of JSON input", "invalid character",
                            "json: cannot unmarshal", "parsing time"}
       /\ ret.event = NilEvent

\* t is a contiguous part of s
IsPart(t, s) == \E i \in 0..(Len(s) - Len(t)) : SubSeq(s, i + 1, i + Len(t)) = t

\* the error message quotes the text: in the value it names, or as the byte
\* the library diagnostic names
Quotes(e, t) ==
    /\ t # <<>>
    /\ e.kind # "webhook request has unsupported Content-Type"
    /\ IsPart(t, e.arg) \/ (e.causeByte # 0 /\ e.causeByte = t[1])

\* the hex text of the digest the code computes for the header's algorithm
ComputedDigests(message, key) ==
    {EncodeToString(genMAC(message, key, h)) : h \in HashFuncs}

SignatureChecked == op \in {"ValidatePayload", "ValidateSignature"}

\* C16 as claimed: no error of ValidateSignature or ValidatePayload quotes
\* the secret, the digest computed from it, or the digest text the signature
\* header carries.
C16_NoDigestInErrors ==
    (SignatureChecked /\ IsErr(ret.err)) =>
        /\ ~Quotes(ret.err, secretToken)
        /\ \A d \in ComputedDigests(r.Body.data, secretToken) : ~Quotes(ret.err, d)
        /\ HasEq(r.Header.Signature) => ~Quotes(ret.err, AfterEq(r.Header.Signature))

\* C16 amended: every error of ValidateSignature and ValidatePayload is a
\* fixed text with at most one quoted value, and that value is taken from
\* the request as received, never from the secret or from the digest
\* computed from it.  "payload signature check failed", the only error
\* raised after the digest is computed, quotes nothing.  The errors for a
\* header that does not parse quote the header as received: the whole
\* header ("error parsing signature", "error decoding signature", the latter
\* also the first byte of it that is no hex digit) or its text before the
\* first "=" ("unknown hash type prefix"), the digest text it carries
\* included.  The other errors quote the Content-Type, or the invalid
\* escape of a form body, or nothing.
C16_ErrorsQuoteRequestOnly ==
    (SignatureChecked /\ IsErr(ret.err)) =>
        /\ ret.err.kind \in
               {"missing signature", "error parsing signature",
                "unknown hash type prefix", "error decoding signature",
                "payload signature check failed", "read error", "invalid URL escape",
                "webhook request has unsupported Content-Type"}
        /\ ret.err.kind \in {"missing signature", "payload signature check failed",
                             "read error"}
               => /\ ret.err.arg = <<>>
                  /\ ret.err.cause = "nil" /\ ret.err.causeByte = 0
        /\ ret.err.kind = "invalid URL escape"
               => /\ IsPart(ret.err.arg, r.Body.data)
                  /\ Len(ret.err.arg) \in 1..3 /\ ret.err.arg[1] = 37
                  /\ ret.err.cause = "nil" /\ ret.err.causeByte = 0
        /\ ret.err.kind = "webhook request has unsupported Content-Type"
               => /\ ret.err.arg = r.Header.ContentType
                  /\ ret.err.cause = "nil" /\ ret.err.causeByte = 0
        /\ ret.err.kind = "error parsing signature"
               => /\ ret.err.arg = r.Header.Signature
                  /\ ret.err.cause = "nil" /\ ret.err.causeByte = 0
        /\ ret.err.kind = "unknown hash type prefix"
               => /\ ret.err.arg = BeforeEq(r.Header.Signature)
                  /\ ret.err.cause = "nil" /\ ret.err.causeByte = 0
        /\ ret.err.kind = "error decoding signature"
               => /\ ret.err.arg = r.Header.Signature
                  /\ \/ ret.err.cause = "ErrLength" /\ ret.err.causeByte = 0
                     \/ /\ ret.err.cause = "InvalidByteError"
                        /\ \E i \in 1..Len(AfterEq(r.Header.Signature)) :
                               /\ ret.err.causeByte = AfterEq(r.Header.Signature)[i]
                               /\ ~IsHexChar(ret.err.causeByte)

\* under the longer secret a request signed with the other secret was
\* refused, with an error that quotes nothing
C16_Witness ==
    /\ ValidationDone
    /\ secretToken = Key2
    /\ Len(r.Body.data) > 0
    /\ r.Header.Signature = SignatureHeader("sha256", r.Body.data, Key1)
    /\ ret.err = NewErr("payload signature check failed", <<>>)

\* the algorithm the text before the first "=" names
HashOf(sig) ==
    CASE BeforeEq(sig) = sha1Prefix -> "sha1"
      [] BeforeEq(sig) = sha256Prefix -> "sha256"
      [] BeforeEq(sig) = sha512Prefix -> "sha512"

\* C17: a header with a recognized algorithm and a digest that is valid hex
\* but not of the length of the algorithm (40, 64, 128 hex characters) makes
\* ValidateSignature fail with "payload signature check failed", whatever
\* the payload and the secret.
C17_WrongLengthFails ==
    (/\ op = "ValidateSignature"
     /\ HasEq(args.signature)
     /\ KnownPrefix(BeforeEq(args.signature))
     /\ ValidHex(AfterEq(args.signature))
     /\ Len(AfterEq(args.signature)) # 2 * Size(HashOf(args.signature)))
    => ret.err.kind = "payload signature check failed"

\* the true sha1 digest without its last byte was refused
C17_Witness ==
    /\ op = "ValidateSignature"
    /\ args.signature = sha1Prefix \o <<61>>
          \o SubSeq(EncodeToString(genMAC(args.payload, secretToken, "sha1")), 1, 38)
    /\ ret.err.kind = "payload signature check failed"

ResponseChecked == op \in {"CheckResponse", "CheckResponseSecond"}

\* C20: CheckResponse returns nil exactly when the status code is in
\* 200..299; for every other status code it returns an error, whether or
\* not the body of a 400..415 response decodes as an error document.
C20_NilIff2xx ==
    ResponseChecked =>
        (~IsErr(ret.err) <=> (200 <= resp.StatusCode /\ resp.StatusCode <= 299))

\* a 404 whose body is the error document {"errors":[{"message":"m"}]} was
\* returned as an ErrorResponse with one error
C20_Witness ==
    /\ op = "CheckResponse"
    /\ resp.StatusCode = 404
    /\ Len(resp.Body.data) = 28
    /\ ret.err.kind = "ErrorResponse"
    /\ Len(ret.errors) = 1
    /\ resp.Body.pos = Len(resp.Body.data)

\* the request of a handler as it came in
Fresh(req) == [req EXCEPT !.Body.pos = 0, !.Body.reads = 0]

\* what handler hd has of its calls is what the calls return when the
\* handler runs alone
AsAlone(hd, h, alone) ==
    /\ hd.pc \in {"validated", "allocated", "parsed", "written"}
           => ~IsErr(alone.err) /\ hd.payload = alone.payload
    /\ hd.failed = "ValidatePayload"
           => /\ hd.err.kind = alone.err.kind
              /\ hd.payload.isNil /\ hd.event = 0
    /\ hd.failed = "ParseWebHook"
           => /\ hd.err.kind
                   = ParseWebHook(WebHookType(hd.r), hd.payload.bytes).err.kind
              /\ hd.event = 0
    /\ hd.pc = "parsed"
           => /\ hd.event # 0
              /\ ~IsErr(ParseWebHook(WebHookType(hd.r), hd.payload.bytes).err)
              /\ heap[hd.event] = ParseWebHook(WebHookType(hd.r), hd.payload.bytes).event
    /\ hd.pc = "written"
           => /\ hd.event # 0
              /\ heap[hd.event]
                   = Marked(ParseWebHook(WebHookType(hd.r), hd.payload.bytes).event, h)

\* C19: however the steps of the handlers interleave, every handler gets
\* from ValidatePayload and ParseWebHook what it gets when it runs alone on
\* its request; the records of two handlers are at different addresses, and
\* a record holds what its own handler's ParseWebHook decoded and its own
\* handler wrote, whatever the other handlers write.
C19_NoSharedState ==
    \A h \in DOMAIN handlers :
        /\ AsAlone(handlers[h], h, ValidatePayload(Fresh(handlers[h].r), secretToken))
        /\ \A g \in DOMAIN handlers :
               (g # h /\ handlers[g].event # 0) => handlers[g].event # handlers[h].event

\* two handlers with the event key pr:opened both wrote to their records,
\* and each record holds its own handler's mark
C19_Witness ==
    /\ handlers # NoHandlers
    /\ handlers[1].pc = "written" /\ handlers[2].pc = "written"
    /\ WebHookType(handlers[1].r) = "pr:opened"
    /\ WebHookType(handlers[2].r) = "pr:opened"
    /\ handlers[1].r # handlers[2].r
    /\ handlers[1].event = 2 /\ handlers[2].event = 1
    /\ heap[2].fields[1].s = <<49>> /\ heap[1].fields[1].s = <<50>>
    /\ heap[1].type = heap[2].type

\* the request r with another signature header, as it came in
WithSignature(req, sig) == [Fresh(req) EXCEPT !.Header.Signature = sig]

\* the error of extraction for a request that has one: no case of the switch
\* for its Content-Type, or a form body that url.ParseQuery refuses
ExtractionErr(req) ==
    IF ~Supported(req.Header.ContentType)
    THEN NewErr("webhook request has unsupported Content-Type", req.Header.ContentType)
    ELSE IF req.Header.ContentType = FormType /\ ~req.Body.fail
    THEN ParseQuery(req.Body.data).err
    ELSE NilErr

SameErr(e, f) == e.kind = f.kind /\ e.arg = f.arg

OtherSecrets == {<<>>, Key1, Key2}

OtherSignatures(body) ==
    {<<>>, md5Header, sha1Prefix \o <<61, 122, 122>>,
     SignatureHeader("sha1", body, Key1), SignatureHeader("sha256", body, Key2)}

\* C23: a request whose Content-Type has no case in the switch, or whose
\* form body is not a query string, gets the error of extraction and a nil
\* payload from ValidatePayload, and gets the same for every other secret
\* and every other signature header: the signature check does not take part
\* in the outcome.
C23_ExtractionFirst ==
    (ValidationDone /\ IsErr(ExtractionErr(r)))
        => /\ Rejected
           /\ SameErr(ret.err, ExtractionErr(r))
           /\ \A key \in OtherSecrets, sig \in OtherSignatures(r.Body.data) :
                  /\ ValidatePayload(WithSignature(r, sig), key).payload.isNil
                  /\ SameErr(ValidatePayload(WithSignature(r, sig), key).err, ret.err)

\* a form body that is not a query string arrived with a valid signature
\* under the configured secret and was refused for its body
C23_Witness ==
    /\ ValidationDone
    /\ r.Header.ContentType = FormType
    /\ secretToken = Key1
    /\ r.Header.Signature = SignatureHeader("sha1", r.Body.data, Key1)
    /\ IsErr(ParseQuery(r.Body.data).err)
    /\ ret.err.kind = ParseQuery(r.Body.data).err.kind
    /\ ret.payload.isNil

\* C24: for an event key outside the thirteen of the switch ParseWebHook
\* returns the unknown-event-key error naming the key, and no record,
\* whatever the payload is: empty, malformed or well formed.
C24_KeyBeforePayload ==
    (ParseDone /\ args.eventKey \notin EventKeys)
        => /\ ret.err.kind = "unknown X-Event-Key in message"
           /\ ret.err.arg = args.eventKey
           /\ ret.event = NilEvent

\* a payload that no record decodes from was parsed under an unknown key
C24_Witness ==
    /\ ParseDone
    /\ args.eventKey = "pr:comment:added"
    /\ args.payload = <<123, 34, 97, 34, 58>>                      \* {"a":
    /\ \A k \in EventKeys : IsErr(ParseWebHook(k, args.payload).err)
    /\ ret.err.kind = "unknown X-Event-Key in message"

eventKeyName == <<101, 118, 101, 110, 116, 75, 101, 121>>          \* eventKey

\* the members of the payload's object, none when it is not an object
Members(payload) ==
    IF JParse(payload).ok /\ JParse(payload).v.t = "obj"
    THEN JParse(payload).v.items ELSE <<>>

\* the text of a JSON string, empty for any other value
TextOf(v) == IF v.t = "str" THEN v.s ELSE <<>>

\* the text of the last of the members at the indexes, empty when none
LastText(members, at) ==
    IF at = {} THEN <<>>
    ELSE TextOf(members[CHOOSE n \in at : \A m \in at : m <= n][2])

\* payloads whose only member is an eventKey with a text
OnlyEventKey ==
    { <<123, 34, 101, 118, 101, 110, 116, 75, 101, 121, 34, 58, 34, 120, 34, 125>>,
      <<123, 34, 101, 118, 101, 110, 116, 75, 101, 121, 34, 58, 34, 112, 114, 58, 111, 112, 101, 110, 101, 100, 34, 125>> }

\* C25 as stated: the EventKey field of the record ParseWebHook returns is
\* the value of the member named eventKey of the payload, and empty when
\* the payload has no member of that name; a payload that is only an
\* eventKey decodes under every event key.
C25_EventKeyIsPayloadField ==
    (ParseDone /\ args.eventKey \in EventKeys)
        => /\ ~IsErr(ret.err)
               => TextOf(ret.event.fields[FieldNamed(ret.event.type, "EventKey")])
                    = LastText(Members(args.payload),
                               {n \in 1..Len(Members(args.payload)) :
                                   Members(args.payload)[n][1] = eventKeyName})
           /\ args.payload \in OnlyEventKey => ~IsErr(ret.err)

\* C25: the EventKey field of the record ParseWebHook returns is the text of
\* the last member of the payload that has a text and a name equal to
\* eventKey up to the case of its letters, and empty when the payload has
\* no such member; the event key of the call is not compared with it: a
\* payload that is only an eventKey decodes under every event key.
C25_EventKeyFromPayload ==
    (ParseDone /\ args.eventKey \in EventKeys)
        => /\ ~IsErr(ret.err)
               => TextOf(ret.event.fields[FieldNamed(ret.event.type, "EventKey")])
                    = LastText(Members(args.payload),
                               {n \in 1..Len(Members(args.payload)) :
                                   /\ EqualFold(Members(args.payload)[n][1], eventKeyName)
                                   /\ Members(args.payload)[n][2].t = "str"})
           /\ args.payload \in OnlyEventKey => ~IsErr(ret.err)

\* a push record was decoded from a payload that names another event
C25_Witness ==
    /\ ParseDone
    /\ args.eventKey = "repo:refs_changed"
    /\ args.payload \in OnlyEventKey
    /\ ~IsErr(ret.err)
    /\ ret.event.type = "PushEvent"
    /\ ret.event.fields[1].s = EventKeyText("pr:opened")

\* the error of the first check of the signature header that fails, the
\* checks taken in the order: empty header, no "=", prefix, hex digits,
\* digest
FirstFailure(sig, payload, key) ==
    IF sig = <<>> THEN "missing signature"
    ELSE IF ~HasEq(sig) THEN "error parsing signature"
    ELSE IF ~KnownPrefix(BeforeEq(sig)) THEN "unknown hash type prefix"
    ELSE IF ~ValidHex(AfterEq(sig)) THEN "error decoding signature"
    ELSE IF ~SignedBy(sig, payload, key) THEN "payload signature check failed"
    ELSE "nil"

SignatureDone == op = "ValidateSignature"

\* C26 as stated: the error of ValidateSignature is that of the first
\* failing check; md5=zz is an unknown prefix; and every header that has
\* another "=" after its first "=" is a decoding error.
C26_CheckOrder ==
    SignatureDone =>
        /\ ret.err.kind = FirstFailure(args.signature, args.payload, secretToken)
        /\ args.signature = <<109, 100, 53, 61, 122, 122>>
               => ret.err.kind = "unknown hash type prefix"
        /\ (HasEq(args.signature) /\ HasEq(AfterEq(args.signature)))
               => ret.err.kind = "error decoding signature"

\* C26: the error of ValidateSignature is that of the first failing check;
\* md5=zz is an unknown prefix; a header with sha1, sha256 or sha512 before
\* its first "=" and another "=" after it is a decoding error, and one with
\* any other text before its first "=" is an unknown prefix.
C26_FirstFailingCheck ==
    SignatureDone =>
        /\ ret.err.kind = FirstFailure(args.signature, args.payload, secretToken)
        /\ args.signature = <<109, 100, 53, 61, 122, 122>>
               => ret.err.kind = "unknown hash type prefix"
        /\ (HasEq(args.signature) /\ HasEq(AfterEq(args.signature)))
               => ret.err.kind = IF KnownPrefix(BeforeEq(args.signature))
                                 THEN "error decoding signature"
                                 ELSE "unknown hash type prefix"

\* sha256=ab=cd was split at its first "=" and ab=cd refused as hex
C26_Witness ==
    /\ SignatureDone
    /\ args.signature = sha256Prefix \o <<61, 97, 98, 61, 99, 100>>
    /\ ret.err.kind = "error decoding signature"
    /\ ret.err.arg = args.signature

\* the calls of ValidatePayload made after an earlier call read the body to
\* its end, with no replay in between
AfterConsumed ==
    {i \in CallsOf("ValidatePayload") :
        /\ log[i].at = Len(r.Body.data)
        /\ \E j \in CallsOf("ValidatePayload") :
               /\ j < i
               /\ log[j].reads = 1
               /\ log[j].pos = Len(r.Body.data)
               /\ \A k \in (j + 1)..(i - 1) : log[k].op # "Replay"
        /\ ~r.Body.fail}

\* C27: a call of ValidatePayload on a request whose body an earlier call
\* read to its end, and that was not replayed, reads an empty body: under
\* an empty secret it returns the empty payload and no error; under another
\* secret it returns the empty payload and no error when the header is a
\* signature of the empty message, and an error and no payload when not.
C27_SecondCallSeesEmptyBody ==
    \A i \in AfterConsumed :
        /\ log[i].reads = 1
        /\ secretToken = <<>>
               => /\ ~IsErr(log[i].result.err)
                  /\ log[i].result.payload = Bytes(<<>>)
        /\ secretToken # <<>>
               => /\ ~IsErr(log[i].result.err)
                        <=> SignedBy(r.Header.Signature, <<>>, secretToken)
                  /\ IF IsErr(log[i].result.err)
                     THEN log[i].result.payload = NilBytes
                     ELSE log[i].result.payload = Bytes(<<>>)

\* a request signed for the empty message was refused by the first call,
\* which read its body, and accepted by the second with an empty payload
C27_Witness ==
    /\ Len(log) >= 2
    /\ log[1].op = "ValidatePayload" /\ log[2].op = "ValidatePayload"
    /\ secretToken = Key1
    /\ r.Body.data # <<>>
    /\ log[1].result.err.kind = "payload signature check failed"
    /\ log[2].at = Len(r.Body.data)
    /\ ~IsErr(log[2].result.err)
    /\ log[2].result.payload = Bytes(<<>>)

ClientMade == op \in {"NewServerClient", "NewServerClient again"} /\ ~IsErr(ret.err)

\* how many times the text occurs in s
Occurrences(s, t) ==
    Cardinality({i \in 0..(Len(s) - Len(t)) : SubSeq(s, i + 1, i + Len(t)) = t})

\* C21: the path of the base URL of a client NewServerClient returns ends
\* with /rest/api/1.0/.  It is the path of the base URL passed when that
\* ends with /rest/api/1.0/, that path and "/" when it ends with
\* /rest/api/1.0, and else that path, "/" if it does not end with one, and
\* rest/api/1.0/.  A client made from the base URL of a client has the same
\* base URL: the same text and the same path.
C21_SuffixOnce ==
    ClientMade =>
        /\ HasSuffix(client.baseURL.Path, apiSuffix)
        /\ IF HasSuffix(urlParse(args.baseURL).url.Path, apiSuffix)
           THEN client.baseURL.Path = urlParse(args.baseURL).url.Path
           ELSE IF HasSuffix(urlParse(args.baseURL).url.Path, SubSeq(apiSuffix, 1, 13))
           THEN client.baseURL.Path = urlParse(args.baseURL).url.Path \o <<47>>
           ELSE /\ Occurrences(client.baseURL.Path, apiSuffix)
                     = Occurrences(urlParse(args.baseURL).url.Path \o <<47>>, apiSuffix) + 1
                /\ \/ client.baseURL.Path
                        = urlParse(args.baseURL).url.Path \o Tail(apiSuffix)
                   \/ client.baseURL.Path = urlParse(args.baseURL).url.Path \o apiSuffix
        /\ op = "NewServerClient again"
               => /\ client.baseURL.Path = ret.before.baseURL.Path
                  /\ String(client.baseURL) = String(ret.before.baseURL)
                  /\ String(client.baseURL) = args.baseURL

\* http://h:7990/rest/api/1.0 got its "/" and nothing else, and the client
\* made from the result has the same base URL
C21_Witness ==
    /\ op = "NewServerClient again"
    /\ ~IsErr(ret.err)
    /\ String(client.baseURL)
         = <<104, 116, 116, 112, 58, 47, 47, 104, 58, 55, 57, 57, 48>> \o apiSuffix
    /\ client.baseURL.Path = apiSuffix
    /\ ret.before.baseURL.Path = apiSuffix

\* the HTTP client returned a response with a status of the 200 range whose
\* body could be read
Succeeded(out) ==
    out.kind = "response" /\ out.StatusCode >= 200 /\ out.StatusCode <= 299 /\ ~out.fail

\* the error Do returns for what the HTTP client made of a request that did
\* not succeed
FailureKind(out) ==
    IF out.kind = "error" THEN out.err
    ELSE IF out.fail THEN "read error"
    ELSE IF /\ out.StatusCode >= 400 /\ out.StatusCode <= 415
            /\ ~IsErr(Decode([data |-> out.data, pos |-> 0]).err)
    THEN "ErrorResponse"
    ELSE "status"

\* C22: the first request Myself sends is the GET of the whoami endpoint.
\* A second request is sent only after that one succeeded, and it is the
\* GET of users/<slug> under the base URL, the slug being the body of the
\* whoami response.  When WhoAmI fails, Myself returns its error, no user
\* and the response of WhoAmI, and one request was sent.
C22_WhoAmIThenGet ==
    /\ Len(requests) <= 2
    /\ Len(requests) >= 1
           => /\ requests[1].Method = "GET"
              /\ requests[1].URL
                   = String([client.baseURL EXCEPT !.Path = whoamiPath, !.RawPath = <<>>])
    /\ Len(requests) = 2
           => /\ Len(log) >= 1
              /\ Succeeded(log[1])
              /\ requests[2].Method = "GET"
              /\ requests[2]
                   = ClientNewRequest(client, "GET", usersPath \o log[1].data).req
    /\ (Len(log) >= 1 /\ ~Succeeded(log[1]))
           => /\ op = "Myself"
              /\ Len(requests) = 1
              /\ ret.returns
              /\ ret.user.isNil
              /\ ret.err.kind = FailureKind(log[1])
              /\ ret.resp.Response = resp
    /\ (Len(log) >= 1 /\ Succeeded(log[1])
        /\ ~IsErr(urlParse(usersPath \o log[1].data).err))
           => Len(requests) = 2

\* whoami was refused with 401: Myself returned the error and no user, and
\* the only request sent is the one of WhoAmI
C22_Witness ==
    /\ op = "Myself"
    /\ Len(log) = 1
    /\ log[1].StatusCode = 401
    /\ log[1].data = <<97, 100, 109, 105, 110>>
    /\ Len(requests) = 1
    /\ ret.user.isNil
    /\ ret.err.kind = "status"
    /\ ret.resp.Response.StatusCode = 401

\* the Responses made for a target that is no *pagedResponse
NotPaged == {i \in DOMAIN responses : ~responses[i].paged}

\* resp.Size and the like, read through the i-th Response
Field(i, f) == heap[responses[i].pagedResponse][f]

\* C28: every Response made for a target that is no *pagedResponse points
\* to the one package-level notPagedResponse, whichever client and
\* goroutine made it.  So a paging field reads the same through all of
\* them: the value last written through any of them, were they made before
\* or after the write, and the value of the declaration (Size 1, Limit 1,
\* IsLastPage true) when none was written.  The page of a paged Response is
\* a record of its own.
C28_OneSharedRecord ==
    /\ \A i \in NotPaged : responses[i].pagedResponse = notPagedAddr
    /\ \A i \in NotPaged, f \in PagingFields :
           Field(i, f) = IF log.last[f].through = 0 THEN notPagedResponse[f]
                         ELSE log.last[f].value
    /\ \A i \in DOMAIN responses \ NotPaged :
           /\ responses[i].pagedResponse # notPagedAddr
           /\ \A j \in DOMAIN responses :
                  responses[j].pagedResponse = responses[i].pagedResponse => j = i

\* Size was set to 5 through the first of two Responses that are not
\* paged, made by different clients in different goroutines; it reads 5
\* through the second one, and through a third one made after the write
C28_Witness ==
    /\ Len(responses) = 3
    /\ NotPaged = {1, 2, 3}
    /\ responses[1].client # responses[2].client
    /\ responses[1].goroutine # responses[2].goroutine
    /\ log.last["Size"].through = 1
    /\ log.last["Size"].held = 2
    /\ Field(2, "Size") = 5
    /\ Field(3, "Size") = 5

====
